---- MODULE Spec2Model ----
(***************************************************************************)
(* State-machine model of the ha-vesta integration's cloud client code:    *)
(*   - pygizwits: GizwitsClient / DeviceManager / GizwitsDevice /          *)
(*     WebsocketConnection (the stack __init__.py instantiates);           *)
(*   - vesta/api.py: VestaApi with its timestamped _state_cache.           *)
(* Python dicts are functions with a string domain; a coroutine is split   *)
(* into one action per stretch of code between two awaits.                 *)
(***************************************************************************)
EXTENDS Integers, Sequences, FiniteSets, TLC

VARIABLES
    impl,           \* which client the process instantiated: "gizwits" | "vesta"
    now,            \* int(time()): the local clock
    devices,        \* DeviceManager.devices: the bound device ids
    attributes,     \* GizwitsDevice.attributes, per bound device
    is_online,      \* GizwitsDevice.is_online, per bound device
    fetching,       \* fetch_devices: the devices its loop has still to fetch
    v_devices,      \* VestaApi.devices: the bound device ids
    state_cache,    \* VestaApi._state_cache: did -> VestaDeviceStatus
    v_fetching,     \* fetch_data: the devices its loop has still to fetch
    v_pending,      \* a VestaApi setter suspended in its control POST
    ev,             \* history: the last operation step and its outcome
    pushed,         \* history: per device, the last push not yet superseded
    hist,           \* history: per device, the poll-only update sequence
    conns,          \* every WebsocketConnection object created, in creation order
    sockets,        \* DeviceManager.sockets: url -> index of its connection in conns
    sub_pc,         \* per device: where its subscribe_to_device_updates call stands
    sub_conn,       \* per device: the connection that call created (0: none)
    sub_calls,      \* per device: the subscribe_to_device_updates calls made
    websocket_connection, \* GizwitsDevice.websocket_connection, per device: the
                    \* index of the connection in conns (0: never assigned)
    token,          \* GizwitsClient.token
    uid,            \* GizwitsClient.uid
    task,           \* GizwitsClient.task: the state of the refresh_token task it names
    login_pc,       \* where the login() call of async_setup_entry stands
    login_reqs,     \* POST /app/login requests sent so far
    emitted,        \* 'token_expired' events emitted so far
    unloaded,       \* async_unload_entry has run
    creds,          \* the username/password login() was called with
    expire_at,      \* the expire_at the server gave with the stored token
    due,            \* when the sleep of the refresh_token task ends
    tasks,          \* refresh_token tasks created and not finished
    trail,          \* history: login requests sent and events emitted, in order
    account,        \* the server's bindings of the account: devices 1..account
    bind_pc,        \* where the get_bindings call stands
    skip,           \* get_bindings: its local skip
    bound_devices,  \* get_bindings: its local bound_devices (the dids)
    requests,       \* history: the (limit, skip) of the requests of the call
    bind_calls,     \* get_bindings calls made
    response,       \* the non-2xx response handed to raise_for_status
    raised,         \* what raise_for_status raised for it
    stretch,        \* the statements the running coroutine executes before its
                    \* next await, with the snapshot before and after them
    seen            \* history: what the last read of a device's snapshot returned

storeVars == <<impl, now, devices, attributes, is_online, fetching,
               v_devices, state_cache, v_fetching, v_pending, ev, pushed, hist>>
sockVars == <<conns, sockets, sub_pc, sub_conn, sub_calls, websocket_connection>>
refreshVars == <<creds, expire_at, due, tasks, trail>>
sessVars == <<token, uid, task, login_pc, login_reqs, emitted, unloaded, refreshVars>>
bindVars == <<account, bind_pc, skip, bound_devices, requests, bind_calls>>
errVars == <<response, raised>>
readVars == <<stretch, seen>>
restVars == <<sessVars, bindVars, errVars, readVars>>
vars == <<storeVars, sockVars, restVars>>

-----------------------------------------------------------------------------
(* Bounds and input sets *)

\* Largest clock value and largest server timestamp explored.
MaxTs == 2

\* The device ids of the account, in the order the bindings list them (the
\* registry is a dict: it iterates in insertion order).
DeviceOrder == <<"d1", "d2">>
AllDids == {DeviceOrder[i] : i \in 1..Len(DeviceOrder)}
\* The devices bound when the store is set up; the other id is not bound.
Dids == {"d1"}

\* Attribute names and values of a pygizwits device (climate.py, select.py).
Keys == {"onoff", "temp_unit"}
Vals == {0, 1}
EmptyDict == [k \in {} |-> 0]
AttrMaps == UNION {[K -> Vals] : K \in SUBSET Keys}
\* The "attr" mappings of the devdata responses, the "attrs" of the s2c_noti
\* frames and the attributes of the control requests explored.
PollAttrs == {[onoff |-> 0, temp_unit |-> 0], [onoff |-> 1, temp_unit |-> 1]}
PushAttrs == {[onoff |-> 1, temp_unit |-> 0], [temp_unit |-> 1]}
SetAttrs == {[onoff |-> 0], [onoff |-> 1, temp_unit |-> 1]}

\* dict.update / item assignment: keys of u overwrite, other keys of m stay.
Upsert(m, u) == [k \in (DOMAIN m) \cup (DOMAIN u) |-> IF k \in DOMAIN u THEN u[k] ELSE m[k]]

\* Outcomes of one HTTP exchange: a 2xx response, a non-2xx response with an
\* error envelope, or a transport failure (aiohttp ClientError, timeout).
HttpOutcomes == {"ok", "9004", "9042", "other", "network"}

-----------------------------------------------------------------------------
(* Error taxonomy *)

\* exceptions.py raise_for_status: nothing for a 2xx response, otherwise the
\* class ErrorCodes.get_exception gives for the envelope's error_code.
raise_for_status(o) ==
    CASE o = "ok"   -> "none"
      [] o = "9004" -> "GizwitsTokenInvalidException"
      [] o = "9005" -> "GizwitsUserDoesNotExistException"
      [] o = "9020" -> "GizwitsIncorrectPasswordException"
      [] o = "9042" -> "GizwitsOfflineException"
      [] OTHER      -> "GizwitsException"

\* GizwitsClient._get / _post: the exception the exchange raises ("none": it
\* returns the decoded body). A transport failure is raised by the session.
HttpRaises(o) == IF o = "network" THEN "ClientError" ELSE raise_for_status(o)

\* vesta/api.py _raise_for_status, as used by _do_get / _do_post.
v_raise_for_status(o) ==
    CASE o = "ok"   -> "none"
      [] o = "9004" -> "VestaTokenInvalidException"
      [] o = "9005" -> "VestaUserDoesNotExistException"
      [] o = "9020" -> "VestaIncorrectPasswordException"
      [] o = "9042" -> "VestaOfflineException"
      [] OTHER      -> "ClientResponseError"

VestaHttpRaises(o) == IF o = "network" THEN "ClientError" ELSE v_raise_for_status(o)

-----------------------------------------------------------------------------
(* History records *)

Event(op, did, ts, attrs, pre, result, sent) ==
    [op |-> op, did |-> did, ts |-> ts, attrs |-> attrs, pre |-> pre,
     result |-> result, sent |-> sent]

NoPush == [at |-> 0, attrs |-> EmptyDict]
NoHist == [mono |-> TRUE, n |-> 0, ts |-> 0, attrs |-> EmptyDict]
Broken == [mono |-> FALSE, n |-> 0, ts |-> 0, attrs |-> EmptyDict]

\* The poll-only history of device d after a poll (ts, attrs) was applied:
\* it stays monotone while every update of d has been a poll with a non-zero
\* timestamp not older than the poll before it; n tells no poll, one poll
\* and several polls apart.
HistAfterPoll(h, ts, attrs) ==
    IF h.mono /\ ts # 0 /\ ts >= h.ts
    THEN [mono |-> TRUE, n |-> IF h.n = 0 THEN 1 ELSE 2, ts |-> ts, attrs |-> attrs]
    ELSE Broken

-----------------------------------------------------------------------------
(* pygizwits: the device registry and the per-device attribute store *)

\* The body of GET /app/devdata/{did}/latest as _get returns it.
LatestData(d, ts, attrs) == [did |-> d, updated_at |-> ts, attr |-> attrs]

\* GizwitsClient.fetch_devices lines 332-349 and fetch_device lines 303-314:
\* what one decoded response does to the device it was fetched for.
GizOfflineAttributes(prior, latest_data) == EmptyDict
\* (variant: the offline branch forgets to empty the attributes)
GizPollAttributesKeepsPrior(prior, latest_data) ==
    IF latest_data.updated_at = 0 THEN prior ELSE latest_data
GizPollAttributes(prior, latest_data) ==
    IF latest_data.updated_at = 0
    THEN GizOfflineAttributes(prior, latest_data)
    ELSE latest_data
GizPollOnline(prior, latest_data) ==
    IF latest_data.updated_at = 0 THEN FALSE ELSE prior

\* (variant: a failed fetch empties the attributes of its device)
GizFailedPollClears(prior) == EmptyDict
\* fetch_devices line 334: when _get raises, the loop is left before any
\* assignment to device_info.
GizFailedPollAttributes(prior) == prior

\* (variant: the push is merged into the attributes it finds)
GizPushAttributesUpsert(prior, attrs) == Upsert(prior, attrs)
\* DeviceManager.got_device_status_update line 86: the attributes after a push.
GizPushAttributes(prior, attrs) == attrs

\* fetch_devices up to its loop: nothing to do for an empty registry.
GizFetchStart ==
    /\ impl = "gizwits"
    /\ fetching = <<>>
    /\ fetching' = SelectSeq(DeviceOrder, LAMBDA d : d \in devices)
    /\ ev' = Event("fetch_devices", "", 0, EmptyDict, EmptyDict, "none", FALSE)
    /\ UNCHANGED <<sockVars, restVars>>
    /\ UNCHANGED <<impl, now, devices, attributes, is_online,
                   v_devices, state_cache, v_fetching, v_pending, pushed, hist>>

\* One iteration of the fetch_devices loop: the GET for the next device
\* returns (or raises, which leaves the loop and the call).
GizFetchStep(o, ts, attrs) ==
    /\ impl = "gizwits"
    /\ fetching # <<>>
    /\ LET d == Head(fetching)
           latest_data == LatestData(d, ts, attrs)
       IN IF HttpRaises(o) # "none"
          THEN /\ fetching' = <<>>
               /\ ev' = Event("poll", d, 0, EmptyDict, EmptyDict, HttpRaises(o), TRUE)
               /\ attributes' = [attributes EXCEPT ![d] = GizFailedPollAttributes(@)]
               /\ UNCHANGED <<is_online, pushed, hist>>
          ELSE /\ fetching' = Tail(fetching)
               /\ attributes' = [attributes EXCEPT ![d] = GizPollAttributes(@, latest_data)]
               /\ is_online' = [is_online EXCEPT ![d] = GizPollOnline(@, latest_data)]
               /\ ev' = Event("poll", d, ts, attrs, attributes[d], "none", TRUE)
               /\ pushed' = [pushed EXCEPT ![d] =
                                IF ts # 0 /\ ts < @.at THEN @ ELSE NoPush]
               /\ hist' = [hist EXCEPT ![d] = HistAfterPoll(@, ts, attrs)]
    /\ UNCHANGED <<sockVars, restVars>>
    /\ UNCHANGED <<impl, now, devices, v_devices, state_cache, v_fetching, v_pending>>

\* GizwitsClient.fetch_device (GizwitsDevice.get_device_status).
GizFetchDevice(id, o, ts, attrs) ==
    /\ impl = "gizwits"
    /\ IF id \notin devices
       THEN /\ ev' = Event("fetch_device", id, 0, EmptyDict, EmptyDict,
                           "GizwitsDeviceNotBound", FALSE)
            /\ UNCHANGED <<attributes, is_online, pushed, hist>>
       ELSE IF HttpRaises(o) # "none"
       THEN /\ ev' = Event("fetch_device", id, 0, EmptyDict, EmptyDict, HttpRaises(o), TRUE)
            /\ UNCHANGED <<attributes, is_online, pushed, hist>>
       ELSE /\ attributes' = [attributes EXCEPT
                                ![id] = GizPollAttributes(@, LatestData(id, ts, attrs))]
            /\ is_online' = [is_online EXCEPT
                                ![id] = GizPollOnline(@, LatestData(id, ts, attrs))]
            /\ ev' = Event("poll", id, ts, attrs, attributes[id], "none", TRUE)
            /\ pushed' = [pushed EXCEPT ![id] =
                             IF ts # 0 /\ ts < @.at THEN @ ELSE NoPush]
            /\ hist' = [hist EXCEPT ![id] = HistAfterPoll(@, ts, attrs)]
    /\ UNCHANGED <<sockVars, restVars>>
    /\ UNCHANGED <<impl, now, devices, fetching,
                   v_devices, state_cache, v_fetching, v_pending>>

\* An s2c_noti frame {did, attrs} handed to got_device_status_update.
\* devices.get(did) is None for an unbound did, and the assignment raises.
got_device_status_update(id, attrs) ==
    /\ impl = "gizwits"
    /\ IF id \notin devices
       THEN /\ ev' = Event("push", id, 0, attrs, EmptyDict, "AttributeError", FALSE)
            /\ UNCHANGED <<attributes, pushed, hist>>
       ELSE /\ attributes' = [attributes EXCEPT ![id] = GizPushAttributes(@, attrs)]
            /\ ev' = Event("push", id, now, attrs, attributes[id], "none", FALSE)
            /\ pushed' = [pushed EXCEPT ![id] = [at |-> now, attrs |-> attrs]]
            /\ hist' = [hist EXCEPT ![id] = Broken]
    /\ UNCHANGED <<sockVars, restVars>>
    /\ UNCHANGED <<impl, now, devices, is_online, fetching,
                   v_devices, state_cache, v_fetching, v_pending>>

\* (variant: the call goes to the server without looking the device up)
GizSetRaisesUnchecked(id, o) ==
    IF HttpRaises(o) # "none" THEN "GizwitsException" ELSE "none"
\* GizwitsClient.set_device_attributes lines 380-390: what the call raises.
GizSetRaises(id, o) ==
    IF id \notin devices THEN "GizwitsDeviceNotBound"
    ELSE IF HttpRaises(o) # "none" THEN "GizwitsException"
    ELSE "none"
\* ... whether it got as far as issuing POST /app/control/{did} ...
GizSetSends(id) == id \in devices
\* ... and the device's attributes after it: the call never writes them.
GizSetAttributes(prior, attrs, o) == prior

\* GizwitsClient.set_device_attribute(s) (GizwitsDevice.set_device_attribute(s)).
set_device_attributes(id, attrs, o) ==
    /\ impl = "gizwits"
    /\ ev' = Event("set", id, now, attrs,
                   IF id \in devices THEN attributes[id] ELSE EmptyDict,
                   GizSetRaises(id, o), GizSetSends(id))
    /\ attributes' = [d \in devices |->
                         IF d = id /\ GizSetSends(id)
                         THEN GizSetAttributes(attributes[d], attrs, o)
                         ELSE attributes[d]]
    /\ UNCHANGED <<sockVars, restVars>>
    /\ UNCHANGED <<impl, now, devices, is_online, fetching,
                   v_devices, state_cache, v_fetching, v_pending, pushed, hist>>

\* The local clock advances.
Tick ==
    /\ now < MaxTs
    /\ now' = now + 1
    /\ ev' = Event("tick", "", 0, EmptyDict, EmptyDict, "none", FALSE)
    /\ UNCHANGED <<sockVars, restVars>>
    /\ UNCHANGED <<impl, devices, attributes, is_online, fetching,
                   v_devices, state_cache, v_fetching, v_pending, pushed, hist>>

GizNext ==
    \/ GizFetchStart
    \/ \E o \in HttpOutcomes, ts \in 0..MaxTs, attrs \in PollAttrs : GizFetchStep(o, ts, attrs)
    \/ \E id \in AllDids, o \in HttpOutcomes, ts \in 0..MaxTs, attrs \in PollAttrs :
          GizFetchDevice(id, o, ts, attrs)
    \/ \E id \in AllDids, attrs \in PushAttrs : got_device_status_update(id, attrs)
    \/ \E id \in AllDids, attrs \in SetAttrs, o \in HttpOutcomes :
          set_device_attributes(id, attrs, o)

-----------------------------------------------------------------------------
(* vesta/api.py: VestaApi and its timestamped state cache *)

\* Attribute names of an Airjet spa and the values explored.
Temps == {20, 21}
AllOn(t) == [spa_power |-> 1, filter_power |-> 1, heat_power |-> 1,
             wave_power |-> 1, temp_set |-> t]
\* The "attr" mappings a devdata response carries in this model.
VestaPollAttrs == {AllOn(t) : t \in Temps} \cup {EmptyDict}

VestaDeviceStatus(ts, attrs) == [timestamp |-> ts, attrs |-> attrs]

NoPending == [did |-> "", op |-> "", arg |-> 0, detached |-> FALSE]

\* (variant: a response as old as the cached state is dropped too)
VestaIgnoresEqual(cache, d, ts) ==
    LET local_update_timestamp == IF d \in DOMAIN cache THEN cache[d].timestamp ELSE 0
    IN ts <= local_update_timestamp
\* fetch_data lines 203-215: the response is dropped when it is older than
\* the cached state (no cached state counts as timestamp 0).
VestaIgnores(cache, d, ts) ==
    LET local_update_timestamp == IF d \in DOMAIN cache THEN cache[d].timestamp ELSE 0
    IN ts < local_update_timestamp

\* fetch_data lines 194-221: the cache after one decoded response for d.
VestaPollCache(cache, d, ts, attrs) ==
    IF ts = 0 THEN cache
    ELSE IF VestaIgnores(cache, d, ts) THEN cache
    ELSE [x \in (DOMAIN cache) \cup {d} |->
             IF x = d THEN VestaDeviceStatus(ts, attrs) ELSE cache[x]]

VestaFetchStart ==
    /\ impl = "vesta"
    /\ v_fetching = <<>>
    /\ v_fetching' = SelectSeq(DeviceOrder, LAMBDA d : d \in v_devices)
    /\ ev' = Event("fetch_data", "", 0, EmptyDict, EmptyDict, "none", FALSE)
    /\ UNCHANGED <<sockVars, restVars>>
    /\ UNCHANGED <<impl, now, devices, attributes, is_online, fetching,
                   v_devices, state_cache, v_pending, pushed, hist>>

\* One iteration of the fetch_data loop. A setter suspended in its POST for d
\* holds the status object it read before: once the loop stores a new object
\* for d, that setter no longer writes the cached one.
VestaFetchStep(o, ts, attrs) ==
    /\ impl = "vesta"
    /\ v_fetching # <<>>
    /\ LET d == Head(v_fetching)
       IN IF VestaHttpRaises(o) # "none"
          THEN /\ v_fetching' = <<>>
               /\ ev' = Event("poll", d, 0, EmptyDict, EmptyDict, VestaHttpRaises(o), TRUE)
               /\ UNCHANGED <<state_cache, v_pending, hist>>
          ELSE /\ v_fetching' = Tail(v_fetching)
               /\ state_cache' = VestaPollCache(state_cache, d, ts, attrs)
               /\ v_pending' = IF v_pending.did = d /\ ts # 0
                                  /\ ~VestaIgnores(state_cache, d, ts)
                               THEN [v_pending EXCEPT !.detached = TRUE]
                               ELSE v_pending
               /\ ev' = Event("poll", d, ts, attrs, EmptyDict, "none", TRUE)
               /\ hist' = [hist EXCEPT ![d] = HistAfterPoll(@, ts, attrs)]
    /\ UNCHANGED <<sockVars, restVars>>
    /\ UNCHANGED <<impl, now, devices, attributes, is_online, fetching,
                   v_devices, pushed>>

\* The keys a setter writes into the cached status once its POST returned:
\* airjet_spa_set_power lines 248-254, airjet_spa_set_target_temp line 301.
VestaWritten(op, arg) ==
    IF op = "temp_set" THEN [temp_set |-> arg]
    ELSE IF arg = 1 THEN [spa_power |-> 1]
    ELSE [spa_power |-> 0, filter_power |-> 0, heat_power |-> 0, wave_power |-> 0]

\* The status object after the setter's writes at local time t.
VestaSetStatus(status, op, arg, t) ==
    VestaDeviceStatus(t, Upsert(status.attrs, VestaWritten(op, arg)))

\* A setter up to its await: the cache lookup, then the control POST is sent.
VestaSetBegin(id, op, arg) ==
    /\ impl = "vesta"
    /\ v_pending = NoPending
    /\ IF id \notin DOMAIN state_cache
       THEN /\ ev' = Event("set", id, now, VestaWritten(op, arg), EmptyDict,
                           "VestaException", FALSE)
            /\ UNCHANGED v_pending
       ELSE /\ v_pending' = [did |-> id, op |-> op, arg |-> arg, detached |-> FALSE]
            /\ ev' = Event("set_req", id, now, VestaWritten(op, arg), EmptyDict,
                           "none", TRUE)
    /\ UNCHANGED <<sockVars, restVars>>
    /\ UNCHANGED <<impl, now, devices, attributes, is_online, fetching,
                   v_devices, state_cache, v_fetching, pushed, hist>>

\* (variant: the writes are made before the POST is known to have succeeded)
VestaSetCacheEager(cache, pending, o, t) ==
    IF pending.detached THEN cache
    ELSE [cache EXCEPT ![pending.did] = VestaSetStatus(@, pending.op, pending.arg, t)]
\* The cache after the POST of the suspended setter ended with outcome o.
VestaSetCache(cache, pending, o, t) ==
    IF VestaHttpRaises(o) # "none" \/ pending.detached THEN cache
    ELSE [cache EXCEPT ![pending.did] = VestaSetStatus(@, pending.op, pending.arg, t)]

\* The setter from its await on: _do_control_post raises, or the writes follow.
VestaSetEnd(o) ==
    /\ impl = "vesta"
    /\ v_pending # NoPending
    /\ state_cache' = VestaSetCache(state_cache, v_pending, o, now)
    /\ v_pending' = NoPending
    /\ ev' = Event("set", v_pending.did, now, VestaWritten(v_pending.op, v_pending.arg),
                   EmptyDict, VestaHttpRaises(o), TRUE)
    /\ hist' = IF VestaHttpRaises(o) = "none"
               THEN [hist EXCEPT ![v_pending.did] = Broken]
               ELSE hist
    /\ UNCHANGED <<sockVars, restVars>>
    /\ UNCHANGED <<impl, now, devices, attributes, is_online, fetching,
                   v_devices, v_fetching, pushed>>

VestaNext ==
    \/ VestaFetchStart
    \/ \E o \in HttpOutcomes, ts \in 0..MaxTs, attrs \in VestaPollAttrs :
          VestaFetchStep(o, ts, attrs)
    \/ \E id \in AllDids, t \in Temps : VestaSetBegin(id, "temp_set", t)
    \/ \E id \in AllDids, power \in {0, 1} : VestaSetBegin(id, "spa_power", power)
    \/ \E o \in HttpOutcomes : VestaSetEnd(o)

-----------------------------------------------------------------------------
(* The device state store of either client, once setup found the bindings *)

\* No response has been handed to raise_for_status.
NoResponse == [status |-> 200, decodes |-> TRUE, has_code |-> FALSE, error_code |-> 0]
NoError == [class |-> "none", status |-> 0]

\* An entry of the trail: what went out, and the credentials it carried.
Step(e, c) == [e |-> e, creds |-> c]

\* The session once async_setup_entry logged in with a token that expires
\* at exp: login() stored the token and the uid and created the refresh
\* task, which sleeps until then.
SessionLoggedInUntil(exp) ==
    /\ token = "t1"
    /\ uid = "u1"
    /\ task = "sleeping"
    /\ login_pc = "idle"
    /\ login_reqs = 1
    /\ emitted = 0
    /\ unloaded = FALSE
    /\ creds = "c1"
    /\ expire_at = exp
    /\ due = exp
    /\ tasks = 1
    /\ trail = <<Step("login_req", "c1")>>

\* The same, with a token that outlives the clock values explored.
SessionLoggedIn == SessionLoggedInUntil(MaxTs + 1)

\* No get_bindings call is running and none was made.
BindingsIdle ==
    /\ account = 0
    /\ bind_pc = "idle"
    /\ skip = 0
    /\ bound_devices = {}
    /\ requests = <<>>
    /\ bind_calls = 0

NoResponseYet == response = NoResponse /\ raised = NoError

\* The event loop is between coroutines and no snapshot has been read.
Stretch(todo, old, new) == [todo |-> todo, old |-> old, new |-> new]
NoRead == [snap |-> EmptyDict, old |-> EmptyDict, new |-> EmptyDict]
NoReader ==
    /\ stretch = Stretch(<<>>, EmptyDict, EmptyDict)
    /\ seen = NoRead

Init ==
    /\ SessionLoggedIn /\ BindingsIdle /\ NoResponseYet /\ NoReader
    /\ impl \in {"gizwits", "vesta"}
    /\ now = 1
    /\ devices = IF impl = "gizwits" THEN Dids ELSE {}
    /\ attributes = [d \in devices |-> EmptyDict]
    /\ is_online \in [devices -> BOOLEAN]
    /\ fetching = <<>>
    /\ v_devices = IF impl = "vesta" THEN Dids ELSE {}
    /\ state_cache = EmptyDict
    /\ v_fetching = <<>>
    /\ v_pending = NoPending
    /\ ev = Event("init", "", 0, EmptyDict, EmptyDict, "none", FALSE)
    /\ pushed = [d \in AllDids |-> NoPush]
    /\ hist = [d \in AllDids |-> NoHist]
    /\ conns = <<>>
    /\ sockets = EmptyDict
    /\ sub_pc = [d \in AllDids |-> "idle"]
    /\ sub_conn = [d \in AllDids |-> 0]
    /\ sub_calls = [d \in AllDids |-> 0]
    /\ websocket_connection = [d \in AllDids |-> 0]

Next == GizNext \/ VestaNext \/ Tick

Spec == Init /\ [][Next]_vars

TypeOK ==
    /\ impl \in {"gizwits", "vesta"}
    /\ now \in 1..MaxTs
    /\ DOMAIN state_cache \subseteq v_devices
    /\ DOMAIN attributes = devices

\* The poll cycle alone, over an account with every device bound
\* (specification SpecPoll).
InitPoll ==
    /\ SessionLoggedIn /\ BindingsIdle /\ NoResponseYet /\ NoReader
    /\ impl \in {"gizwits", "vesta"}
    /\ now = 1
    /\ devices = IF impl = "gizwits" THEN AllDids ELSE {}
    /\ attributes = [d \in devices |-> EmptyDict]
    /\ is_online = [d \in devices |-> TRUE]
    /\ fetching = <<>>
    /\ v_devices = IF impl = "vesta" THEN AllDids ELSE {}
    /\ state_cache = EmptyDict
    /\ v_fetching = <<>>
    /\ v_pending = NoPending
    /\ ev = Event("init", "", 0, EmptyDict, EmptyDict, "none", FALSE)
    /\ pushed = [d \in AllDids |-> NoPush]
    /\ hist = [d \in AllDids |-> NoHist]
    /\ conns = <<>>
    /\ sockets = EmptyDict
    /\ sub_pc = [d \in AllDids |-> "idle"]
    /\ sub_conn = [d \in AllDids |-> 0]
    /\ sub_calls = [d \in AllDids |-> 0]
    /\ websocket_connection = [d \in AllDids |-> 0]

NextPoll ==
    \/ GizFetchStart
    \/ \E o \in HttpOutcomes, ts \in 0..MaxTs, attrs \in PollAttrs : GizFetchStep(o, ts, attrs)
    \/ VestaFetchStart
    \/ \E o \in HttpOutcomes, ts \in 0..MaxTs, attrs \in VestaPollAttrs :
          VestaFetchStep(o, ts, attrs)

SpecPoll == InitPoll /\ [][NextPoll]_vars

-----------------------------------------------------------------------------
(* pygizwits: the websocket connections of the bound devices *)

\* subscribe_to_device_updates calls explored per device, and pings per connection.
MaxSubCalls == 1
MaxPings == 1

\* Descriptor fields the bindings gave the devices: d1 and d2 sit behind the
\* same gateway and differ in their plaintext port only.
Host(d) == "gw1"
WssPort(d) == 8880
WsPort(d) == IF d = "d1" THEN 8080 ELSE 8081
SocketType(d) == "ssl_socket"

\* GizwitsDevice.get_websocket_conn_info: the url is pre + host + ":" + port
\* + path, kept here as the tuple of its four parts.
get_websocket_conn_info(d) ==
    IF SocketType(d) = "ssl_socket"
    THEN <<"wss://", Host(d), WssPort(d), "/ws/app/v1">>
    ELSE <<"ws://", Host(d), WsPort(d), "/ws/app/v1">>

Frame(cmd, dids, success) == [cmd |-> cmd, dids |-> dids, success |-> success]

\* WebsocketConnection.__init__: the heartbeat interval, in seconds.
ping_interval == 180

\* The login_req payload: the client's token and uid and the heartbeat
\* interval of the connection.
LoginReq(tok, id, interval) ==
    [cmd |-> "login_req", dids |-> <<>>, success |-> FALSE,
     token |-> tok, uid |-> id, heartbeat_interval |-> interval]

\* What the receive loop gets when the transport is gone: a message of type
\* CLOSED or ERROR.
TransportMessages == {[type |-> "CLOSED"], [type |-> "ERROR"]}

\* WebsocketConnection.__init__, for the url of websocket_info. connection,
\* receive_messages_task and ping_task are annotated there and not
\* assigned: has_connection tells whether connect() has assigned the first
\* two, has_ping_task whether login() has assigned the third.
WebsocketConnection(url) ==
    [url |-> url, open |-> FALSE, logged_in |-> FALSE, subscribed_devices |-> <<>>,
     receiving |-> FALSE, pinging |-> FALSE, pings |-> 0,
     sent |-> <<>>, answered |-> 0, inbox |-> <<>>,
     has_connection |-> FALSE, has_ping_task |-> FALSE]

\* WebsocketConnection.send: the frame goes out on an open transport; on a
\* transport that is gone send_json raises and nothing goes out.
Send(c, frame) == IF c.open THEN [c EXCEPT !.sent = Append(@, frame)] ELSE c

\* (variant: the heartbeat starts before the login_req is sent)
loginPingFirst(c) ==
    Send(Send(c, Frame("ping", <<>>, FALSE)), LoginReq(token, uid, ping_interval))
\* WebsocketConnection.login: the login_req with the client's uid and token
\* and the connection's ping_interval, as they are when login() runs.
login(c) == Send(c, LoginReq(token, uid, ping_interval))

\* WebsocketConnection.add_device_sub: the device list of the subscribe_req.
AddDeviceSubList(c, did) == Append(c.subscribed_devices, did)

add_device_sub(c, did) == Send(c, Frame("subscribe_req", AddDeviceSubList(c, did), FALSE))

Range(q) == {q[i] : i \in 1..Len(q)}

\* subscribe_to_device_updates up to its first await: the registry lookup,
\* then either the subscribe_req on the registered connection, or a new
\* WebsocketConnection whose connect() is awaited.
SubscribeBegin(d) ==
    /\ d \in devices
    /\ sub_pc[d] = "idle"
    /\ sub_calls[d] < MaxSubCalls
    /\ sub_calls' = [sub_calls EXCEPT ![d] = @ + 1]
    /\ LET websocket_url == get_websocket_conn_info(d)
       IN IF websocket_url \in DOMAIN sockets
          THEN /\ conns' = [conns EXCEPT ![sockets[websocket_url]] = add_device_sub(@, d)]
               /\ UNCHANGED <<sockets, sub_pc, sub_conn>>
          ELSE /\ conns' = Append(conns, WebsocketConnection(websocket_url))
               /\ sub_conn' = [sub_conn EXCEPT ![d] = Len(conns) + 1]
               /\ sub_pc' = [sub_pc EXCEPT ![d] = "connect"]
               /\ UNCHANGED sockets
    /\ UNCHANGED websocket_connection
    /\ UNCHANGED <<storeVars, restVars>>

\* ws_connect returned: connect() keeps the transport and starts the receive
\* task, then login() sends login_req and awaits the send.
SubscribeConnected(d) ==
    /\ sub_pc[d] = "connect"
    /\ conns' = [conns EXCEPT ![sub_conn[d]] =
                    login([@ EXCEPT !.open = TRUE, !.receiving = TRUE,
                                    !.has_connection = TRUE])]
    /\ sub_pc' = [sub_pc EXCEPT ![d] = "login"]
    /\ UNCHANGED <<sockets, sub_conn, sub_calls>>
    /\ UNCHANGED websocket_connection
    /\ UNCHANGED <<storeVars, restVars>>

\* ws_connect raised: the call fails and its connection object is dropped.
SubscribeConnectFailed(d) ==
    /\ sub_pc[d] = "connect"
    /\ sub_pc' = [sub_pc EXCEPT ![d] = "idle"]
    /\ sub_conn' = [sub_conn EXCEPT ![d] = 0]
    /\ UNCHANGED <<conns, sockets, sub_calls>>
    /\ UNCHANGED websocket_connection
    /\ UNCHANGED <<storeVars, restVars>>

\* The login_req send returned: login() starts the ping task, then
\* add_device_sub sends the subscribe_req and awaits the send.
SubscribeLoginSent(d) ==
    /\ sub_pc[d] = "login"
    /\ conns' = [conns EXCEPT ![sub_conn[d]] = add_device_sub([@ EXCEPT !.pinging = TRUE, !.has_ping_task = TRUE], d)]
    /\ IF conns[sub_conn[d]].open
       THEN /\ sub_pc' = [sub_pc EXCEPT ![d] = "subscribe"]
            /\ UNCHANGED sub_conn
       ELSE /\ sub_pc' = [sub_pc EXCEPT ![d] = "idle"]
            /\ sub_conn' = [sub_conn EXCEPT ![d] = 0]
    /\ UNCHANGED <<sockets, sub_calls>>
    /\ UNCHANGED websocket_connection
    /\ UNCHANGED <<storeVars, restVars>>

\* The registry after the call stored its connection under the url.
RegisterSocket(reg, url, c) ==
    [u \in (DOMAIN reg) \cup {url} |-> IF u = url THEN c ELSE reg[u]]

\* The subscribe_req send returned: the connection is entered in the registry.
SubscribeRegister(d) ==
    /\ sub_pc[d] = "subscribe"
    /\ sockets' = RegisterSocket(sockets, get_websocket_conn_info(d), sub_conn[d])
    /\ sub_pc' = [sub_pc EXCEPT ![d] = "idle"]
    /\ sub_conn' = [sub_conn EXCEPT ![d] = 0]
    /\ UNCHANGED <<conns, sub_calls>>
    /\ UNCHANGED websocket_connection
    /\ UNCHANGED <<storeVars, restVars>>

\* (variant: the heartbeat loop goes on after a send that raised)
PingRaisedGoesOn(c) == c
\* _send_ping_periodically lines 113-115: nothing in the loop catches what
\* _send_ping raises, the ping task is over.
PingRaised(c) == [c EXCEPT !.pinging = FALSE]

\* _send_ping_periodically: the ping task sends a ping, then sleeps; when
\* the send raises, the task is over.
SendPing(i) ==
    /\ conns[i].pinging
    /\ conns[i].open => conns[i].pings < MaxPings
    /\ conns' = [conns EXCEPT ![i] =
                    IF @.open
                    THEN Send([@ EXCEPT !.pings = @ + 1], Frame("ping", <<>>, FALSE))
                    ELSE PingRaised(@)]
    /\ UNCHANGED <<sockets, sub_pc, sub_conn, sub_calls>>
    /\ UNCHANGED websocket_connection
    /\ UNCHANGED <<storeVars, restVars>>

\* The server answers the oldest frame it has not answered yet: login_res
\* (success or not), subscribe_res confirming the devices asked for, pong.
ServerAnswer(i, success) ==
    /\ conns[i].open
    /\ conns[i].answered < Len(conns[i].sent)
    /\ LET req == conns[i].sent[conns[i].answered + 1]
           res == CASE req.cmd = "login_req" -> Frame("login_res", <<>>, success)
                    [] req.cmd = "subscribe_req" -> Frame("subscribe_res", req.dids, TRUE)
                    [] OTHER -> Frame("pong", <<>>, TRUE)
       IN /\ req.cmd # "login_req" => success
          /\ conns' = [conns EXCEPT ![i] = [@ EXCEPT !.answered = @ + 1,
                                                     !.inbox = Append(@, res)]]
    /\ UNCHANGED <<sockets, sub_pc, sub_conn, sub_calls>>
    /\ UNCHANGED websocket_connection
    /\ UNCHANGED <<storeVars, restVars>>

\* (variant: any login_res sets the flag)
handle_login_responseAny(c, frame) == [c EXCEPT !.logged_in = TRUE]
\* handle_login_response: only success is True sets the flag.
handle_login_response(c, frame) ==
    IF frame.success THEN [c EXCEPT !.logged_in = TRUE] ELSE c

\* (variant: every confirmed did is appended, listed already or not)
AppendAll(list, dids) == list \o dids
\* handle_device_subscribe_response: each confirmed did not yet in
\* subscribed_devices is appended, in the order of the success list.
RECURSIVE AppendNew(_, _)
AppendNew(list, dids) ==
    IF dids = <<>> THEN list
    ELSE AppendNew(IF Head(dids) \in Range(list) THEN list ELSE Append(list, Head(dids)),
                   Tail(dids))

\* A text frame whose payload is not a JSON object: text that json.loads
\* rejects, and a JSON array.
NotJson == "{"
NotObject == "[1]"
Malformed(text) == [text |-> text]
\* An s2c_noti frame, and a subscribe_res whose data has no "success" list.
Noti(did, attrs) == [cmd |-> "s2c_noti", did |-> did, attrs |-> attrs]
SubscribeResNoList == [cmd |-> "subscribe_res", failed |-> <<>>]

\* An exception leaves handle_message and with it receive_messages: the
\* receive task is over.
Escapes(c) == [c EXCEPT !.receiving = FALSE]

\* handle_device_subscribe_response: the loop over the success list appends
\* the did, then sets websocket_connection on devices.get(did), which is
\* None for a did the registry does not hold; without a success list the
\* loop is over None.
handle_device_subscribe_response(c, frame) ==
    IF "dids" \notin DOMAIN frame THEN Escapes(c)
    ELSE LET unbound == {k \in 1..Len(frame.dids) : frame.dids[k] \notin devices}
         IN IF unbound = {}
            THEN [c EXCEPT !.subscribed_devices = AppendNew(@, frame.dids)]
            ELSE LET first == CHOOSE k \in unbound : \A j \in unbound : k <= j
                 IN Escapes([c EXCEPT !.subscribed_devices =
                                 AppendNew(@, SubSeq(frame.dids, 1, first))])

\* handle_device_subscribe_response lines 219-223: each device of the success
\* list is given this connection, up to the first did that has no device.
SubscribeResBinds(bound, frame, i) ==
    [d \in DOMAIN bound |->
        IF \E k \in 1..Len(frame.dids) :
              frame.dids[k] = d /\ \A j \in 1..k : frame.dids[j] \in devices
        THEN i ELSE bound[d]]

\* handle_message: json.loads (only JSONDecodeError is caught), then the
\* dispatch on cmd; what a handler raises is not caught.
handle_message(c, frame) ==
    IF "text" \in DOMAIN frame
    THEN IF frame.text = NotJson THEN c ELSE Escapes(c)
    ELSE CASE frame.cmd = "login_res" -> handle_login_response(c, frame)
           [] frame.cmd = "subscribe_res" -> handle_device_subscribe_response(c, frame)
           [] frame.cmd = "s2c_noti" ->
                 IF frame.did \in devices THEN c ELSE Escapes(c)
           [] OTHER -> c

\* receive_messages: the receive task takes the next message: a CLOSED or
\* ERROR message ends the loop, a text frame goes to handle_message; an
\* s2c_noti for a bound device reaches got_device_status_update.
ReceiveMessage(i) ==
    /\ conns[i].receiving
    /\ conns[i].inbox # <<>>
    /\ LET frame == Head(conns[i].inbox)
       IN /\ conns' = [conns EXCEPT ![i] =
                          IF frame \in TransportMessages
                          THEN [@ EXCEPT !.inbox = Tail(@), !.receiving = FALSE]
                          ELSE handle_message([@ EXCEPT !.inbox = Tail(@)], frame)]
          /\ IF "cmd" \in DOMAIN frame /\ frame.cmd = "s2c_noti" /\ frame.did \in devices
             THEN /\ attributes' = [attributes EXCEPT
                                       ![frame.did] = GizPushAttributes(@, frame.attrs)]
                  /\ ev' = Event("push", frame.did, now, frame.attrs,
                                 attributes[frame.did], "none", FALSE)
                  /\ pushed' = [pushed EXCEPT
                                   ![frame.did] = [at |-> now, attrs |-> frame.attrs]]
                  /\ hist' = [hist EXCEPT ![frame.did] = Broken]
                  /\ UNCHANGED <<impl, now, devices, is_online, fetching,
                                 v_devices, state_cache, v_fetching, v_pending>>
             ELSE UNCHANGED storeVars
          /\ websocket_connection' =
                IF "cmd" \in DOMAIN frame /\ frame.cmd = "subscribe_res"
                      /\ "dids" \in DOMAIN frame
                THEN SubscribeResBinds(websocket_connection, frame, i)
                ELSE websocket_connection
    /\ UNCHANGED <<sockets, sub_pc, sub_conn, sub_calls>>
    /\ UNCHANGED restVars

InitSock ==
    /\ SessionLoggedIn /\ BindingsIdle /\ NoResponseYet /\ NoReader
    /\ impl = "gizwits"
    /\ now = 1
    /\ devices = AllDids
    /\ attributes = [d \in devices |-> EmptyDict]
    /\ is_online = [d \in devices |-> TRUE]
    /\ fetching = <<>>
    /\ v_devices = {}
    /\ state_cache = EmptyDict
    /\ v_fetching = <<>>
    /\ v_pending = NoPending
    /\ ev = Event("init", "", 0, EmptyDict, EmptyDict, "none", FALSE)
    /\ pushed = [d \in AllDids |-> NoPush]
    /\ hist = [d \in AllDids |-> NoHist]
    /\ conns = <<>>
    /\ sockets = EmptyDict
    /\ sub_pc = [d \in AllDids |-> "idle"]
    /\ sub_conn = [d \in AllDids |-> 0]
    /\ sub_calls = [d \in AllDids |-> 0]
    /\ websocket_connection = [d \in AllDids |-> 0]

NextSock ==
    \/ \E d \in AllDids : SubscribeBegin(d)
    \/ \E d \in AllDids : SubscribeConnected(d)
    \/ \E d \in AllDids : SubscribeConnectFailed(d)
    \/ \E d \in AllDids : SubscribeLoginSent(d)
    \/ \E d \in AllDids : SubscribeRegister(d)
    \/ \E i \in 1..Len(conns) : SendPing(i)
    \/ \E i \in 1..Len(conns), success \in BOOLEAN : ServerAnswer(i, success)
    \/ \E i \in 1..Len(conns) : ReceiveMessage(i)

SpecSock == InitSock /\ [][NextSock]_vars

\* The subscription traffic of the two devices alone, without the heartbeat
\* (specification SpecSub).
NextSub ==
    \/ \E d \in AllDids : SubscribeBegin(d)
    \/ \E d \in AllDids : SubscribeConnected(d)
    \/ \E d \in AllDids : SubscribeConnectFailed(d)
    \/ \E d \in AllDids : SubscribeLoginSent(d)
    \/ \E d \in AllDids : SubscribeRegister(d)
    \/ \E i \in 1..Len(conns), success \in BOOLEAN : ServerAnswer(i, success)
    \/ \E i \in 1..Len(conns) : ReceiveMessage(i)

SpecSub == InitSock /\ [][NextSub]_vars

\* The transport of an open connection is gone (closed by the server, or a
\* network error): nothing more arrives, and the receive loop is handed a
\* CLOSED or an ERROR message after the frames it already holds.
TransportLost(i, message) ==
    /\ conns[i].open
    /\ conns' = [conns EXCEPT ![i] = [@ EXCEPT !.open = FALSE,
                                               !.inbox = Append(@, message)]]
    /\ UNCHANGED <<sockets, sub_pc, sub_conn, sub_calls>>
    /\ UNCHANGED websocket_connection
    /\ UNCHANGED <<storeVars, restVars>>

\* The connections of two devices when transports can be lost
\* (specification SpecLoss).
NextLoss ==
    \/ NextSock
    \/ \E i \in 1..Len(conns), message \in TransportMessages : TransportLost(i, message)

SpecLoss == InitSock /\ [][NextLoss]_vars

\* close lines 242-249: the truth tests of self.ping_task and of
\* self.receive_messages_task read attributes that only login() and
\* connect() assign; reading one that was never assigned raises.
closeRaises(c) ==
    IF ~c.has_ping_task \/ ~c.has_connection THEN "AttributeError" ELSE "none"

\* close: both tasks are cancelled and the transport is closed; when the
\* first attribute read raises, nothing has been done.
close(c) ==
    IF closeRaises(c) # "none" THEN c
    ELSE [c EXCEPT !.pinging = FALSE, !.receiving = FALSE, !.open = FALSE]

\* close() is called on a connection object, in whatever state it is; the
\* event records the connection's index as its ts.
Close(i) ==
    /\ conns' = [conns EXCEPT ![i] = close(@)]
    /\ ev' = Event("close", "", i, EmptyDict, EmptyDict, closeRaises(conns[i]), FALSE)
    /\ UNCHANGED <<sockets, sub_pc, sub_conn, sub_calls>>
    /\ UNCHANGED websocket_connection
    /\ UNCHANGED <<impl, now, devices, attributes, is_online, fetching,
                   v_devices, state_cache, v_fetching, v_pending, pushed, hist>>
    /\ UNCHANGED restVars

\* The connections of the two devices, closed at any moment
\* (specification SpecClose).
NextClose ==
    \/ NextSock
    \/ \E i \in 1..Len(conns) : Close(i)

SpecClose == InitSock /\ [][NextClose]_vars

\* ws_connect returned a transport that is gone before the login_req is
\* written: connect() has started the receive task, the send of login()
\* raises before the ping task is created, the call fails and its
\* connection object is dropped.
SubscribeLoginFailed(d, message) ==
    /\ sub_pc[d] = "connect"
    /\ conns' = [conns EXCEPT ![sub_conn[d]] =
                    login([@ EXCEPT !.receiving = TRUE, !.inbox = <<message>>,
                                    !.has_connection = TRUE])]
    /\ sub_pc' = [sub_pc EXCEPT ![d] = "idle"]
    /\ sub_conn' = [sub_conn EXCEPT ![d] = 0]
    /\ UNCHANGED <<sockets, sub_calls>>
    /\ UNCHANGED websocket_connection
    /\ UNCHANGED <<storeVars, restVars>>

\* The subscribe calls of d1 on transports that can be lost at any moment
\* (specification SpecAbandon); the event loop runs whatever is ready.
NextAbandon ==
    \/ \E d \in {"d1"} : SubscribeBegin(d)
    \/ \E d \in {"d1"} : SubscribeConnected(d)
    \/ \E d \in {"d1"} : SubscribeConnectFailed(d)
    \/ \E d \in {"d1"}, message \in TransportMessages : SubscribeLoginFailed(d, message)
    \/ \E d \in {"d1"} : SubscribeLoginSent(d)
    \/ \E d \in {"d1"} : SubscribeRegister(d)
    \/ \E i \in 1..Len(conns) : SendPing(i)
    \/ \E i \in 1..Len(conns), success \in BOOLEAN : ServerAnswer(i, success)
    \/ \E i \in 1..Len(conns) : ReceiveMessage(i)
    \/ \E i \in 1..Len(conns), message \in TransportMessages : TransportLost(i, message)

SpecAbandon == InitSock /\ [][NextAbandon]_vars /\ WF_vars(NextAbandon)

\* async_unload_entry: the platforms are unloaded and, when that went well,
\* the coordinator is dropped from hass.data. Nothing else is touched: no
\* task is cancelled and no connection is closed.
async_unload_entry(unload_ok) ==
    /\ ~unloaded
    /\ unloaded' = unload_ok
    /\ UNCHANGED <<token, uid, task, login_pc, login_reqs, emitted, refreshVars>>
    /\ UNCHANGED <<storeVars, sockVars, bindVars, errVars, readVars>>

\* The connections up to and after the unload of the integration
\* (specification SpecLife); the event loop runs whatever is ready.
NextLife ==
    \/ NextSock
    \/ \E unload_ok \in BOOLEAN : async_unload_entry(unload_ok)

SpecLife == InitSock /\ [][NextLife]_vars /\ WF_vars(NextLife)

\* The connections of SpecSock when the event loop and the server keep
\* running whatever is ready (specification SpecSockLive).
SpecSockLive == InitSock /\ [][NextSock]_vars /\ WF_vars(NextSock)

\* The receive task of one established connection (specification SpecRecv).
\* Frames waiting in a connection's inbox at most.
MaxInbox == 2
\* The frames the server sends in this model; d2 is not bound.
InboundFrames ==
    {Malformed(NotJson), Malformed(NotObject),
     Frame("unknown_cmd", <<"d1">>, TRUE), Frame("pong", <<>>, TRUE),
     Noti("d2", [onoff |-> 1, temp_unit |-> 0]),
     Frame("subscribe_res", <<"d1">>, TRUE), Frame("subscribe_res", <<"d2">>, TRUE),
     SubscribeResNoList}
        \cup {Noti("d1", attrs) : attrs \in PushAttrs}

\* The server sends a frame on its own.
ServerFrame(i, frame) ==
    /\ conns[i].open
    /\ Len(conns[i].inbox) < MaxInbox
    /\ conns' = [conns EXCEPT ![i] = [@ EXCEPT !.inbox = Append(@, frame)]]
    /\ UNCHANGED <<sockets, sub_pc, sub_conn, sub_calls>>
    /\ UNCHANGED websocket_connection
    /\ UNCHANGED <<storeVars, restVars>>

\* d1 is bound and subscribed: its connection is open and logged in, the
\* server confirmed the subscription, the receive and ping tasks run.
InitRecv ==
    /\ SessionLoggedIn /\ BindingsIdle /\ NoResponseYet /\ NoReader
    /\ impl = "gizwits"
    /\ now = 1
    /\ devices = Dids
    /\ attributes = [d \in devices |-> EmptyDict]
    /\ is_online = [d \in devices |-> TRUE]
    /\ fetching = <<>>
    /\ v_devices = {}
    /\ state_cache = EmptyDict
    /\ v_fetching = <<>>
    /\ v_pending = NoPending
    /\ ev = Event("init", "", 0, EmptyDict, EmptyDict, "none", FALSE)
    /\ pushed = [d \in AllDids |-> NoPush]
    /\ hist = [d \in AllDids |-> NoHist]
    /\ conns = <<[WebsocketConnection(get_websocket_conn_info("d1")) EXCEPT
                    !.open = TRUE, !.logged_in = TRUE, !.receiving = TRUE,
                    !.pinging = TRUE, !.subscribed_devices = <<"d1">>,
                    !.has_connection = TRUE, !.has_ping_task = TRUE,
                    !.sent = <<LoginReq("t1", "u1", ping_interval),
                               Frame("subscribe_req", <<"d1">>, FALSE)>>,
                    !.answered = 2]>>
    /\ sockets = RegisterSocket(EmptyDict, get_websocket_conn_info("d1"), 1)
    /\ sub_pc = [d \in AllDids |-> "idle"]
    /\ sub_conn = [d \in AllDids |-> 0]
    /\ sub_calls = [d \in AllDids |-> IF d = "d1" THEN 1 ELSE 0]
    /\ websocket_connection = [d \in AllDids |-> IF d = "d1" THEN 1 ELSE 0]

NextRecv ==
    \/ \E i \in 1..Len(conns), frame \in InboundFrames : ServerFrame(i, frame)
    \/ \E i \in 1..Len(conns) : ReceiveMessage(i)

SpecRecv == InitRecv /\ [][NextRecv]_vars

\* VestaCoordinator._async_update_data, the refresh cycle of the
\* coordinator: it returns self.devices; no request is made and nothing
\* is written.
async_update_data ==
    /\ impl = "gizwits"
    /\ ev' = Event("_async_update_data", "", 0, EmptyDict, EmptyDict, "none", FALSE)
    /\ UNCHANGED <<impl, now, devices, attributes, is_online, fetching,
                   v_devices, state_cache, v_fetching, v_pending, pushed, hist>>
    /\ UNCHANGED <<sockVars, restVars>>

\* The coordinator's refresh cycles beside an established, subscribed
\* connection (specification SpecCoord).
NextCoord ==
    \/ NextRecv
    \/ async_update_data

SpecCoord == InitRecv /\ [][NextCoord]_vars

-----------------------------------------------------------------------------
(* pygizwits: the session, login and the refresh task (specification SpecSess) *)

\* POST /app/login requests explored.
MaxLogins == 4
\* Outcomes of the login exchange, and the tokens a login response carries.
LoginOutcomes == HttpOutcomes \cup {"9005", "9020"}
Tokens == {"t1", "t2"}
\* The username/password pairs of the config entry, and the expire_at
\* values a login response carries: the server issues tokens that expire
\* later than the moment it answers.
Credentials == {"c1", "c2"}
Expiries == 2..(MaxTs + 1)

\* get_token lines 101-108: raise_for_status decides, nothing is caught.
LoginRaises(o) == HttpRaises(o)

\* What get_token returned: the GizwitsUserToken of the response.
LoginData(o, tok, exp) ==
    IF LoginRaises(o) = "none" THEN [token |-> tok, expire_at |-> exp] ELSE EmptyDict

\* login lines 128-130: the token and the uid are stored once get_token
\* returned.
LoginToken(prior, o, tok) == IF LoginRaises(o) = "none" THEN tok ELSE prior
LoginUid(prior, o) == IF LoginRaises(o) = "none" THEN "u1" ELSE prior
LoginExpiry(prior, o, exp) == IF LoginRaises(o) = "none" THEN exp ELSE prior

\* (variant: the refresh is scheduled whatever get_token did)
LoginTaskAlways(prior, o) == "sleeping"
\* login line 133: a refresh task is created once get_token returned; when
\* get_token raised, self.task is not assigned.
LoginTask(prior, o) == IF LoginRaises(o) = "none" THEN "sleeping" ELSE prior

\* (variant: the sleep is given the expiry itself, not the time left to it)
LoginDueAbsolute(prior, o, t, exp) == IF LoginRaises(o) = "none" THEN t + exp ELSE prior
\* login lines 132-133 and refresh_token line 152: expiry_time is the expiry
\* less int(time()), and the task sleeps that long from now on.
LoginDue(prior, o, t, exp) ==
    IF LoginRaises(o) = "none"
    THEN LET expiry_time == exp - t IN t + expiry_time
    ELSE prior

\* login line 133: one create_task per login that got its token.
LoginTasks(prior, o) == IF LoginRaises(o) = "none" THEN prior + 1 ELSE prior

\* async_setup_entry: device_manager.login on a client that has not logged
\* in; get_token sends the login request and awaits the response.
LoginBegin(c) ==
    /\ login_pc = "idle"
    /\ task = "none"
    /\ ~unloaded
    /\ login_reqs < MaxLogins
    /\ login_pc' = "sent"
    /\ login_reqs' = login_reqs + 1
    /\ creds' = c
    /\ trail' = Append(trail, Step("login_req", c))
    /\ ev' = Event("login_req", "", 0, EmptyDict, EmptyDict, "none", TRUE)
    /\ UNCHANGED <<token, uid, task, emitted, unloaded, expire_at, due, tasks>>
    /\ UNCHANGED <<impl, now, devices, attributes, is_online, fetching,
                   v_devices, state_cache, v_fetching, v_pending, pushed, hist>>
    /\ UNCHANGED <<sockVars, bindVars, errVars, readVars>>

\* The login response of that call arrived: login returns or raises, and
\* async_setup_entry turns what it raises into ConfigEntryNotReady.
LoginEnd(o, tok, exp) ==
    /\ login_pc = "sent"
    /\ exp > now
    /\ login_pc' = "idle"
    /\ token' = LoginToken(token, o, tok)
    /\ uid' = LoginUid(uid, o)
    /\ task' = LoginTask(task, o)
    /\ expire_at' = LoginExpiry(expire_at, o, exp)
    /\ due' = LoginDue(due, o, now, exp)
    /\ tasks' = LoginTasks(tasks, o)
    /\ ev' = Event("login", "", 0, LoginData(o, tok, exp), EmptyDict, LoginRaises(o), TRUE)
    /\ UNCHANGED <<login_reqs, emitted, unloaded, creds, trail>>
    /\ UNCHANGED <<impl, now, devices, attributes, is_online, fetching,
                   v_devices, state_cache, v_fetching, v_pending, pushed, hist>>
    /\ UNCHANGED <<sockVars, bindVars, errVars, readVars>>

\* (variant: the login request goes out before the event is emitted)
RefreshStepsLoginFirst(c) == <<Step("login_req", c), Step("token_expired", "")>>
\* refresh_token lines 154-156: token_expired() emits the event, then
\* login(username, password) sends the login request.
RefreshSteps(c) == <<Step("token_expired", ""), Step("login_req", c)>>

\* refresh_token lines 152-156: the sleep until expiry ends, token_expired()
\* emits the event, then login() sends the login request.
RefreshWake ==
    /\ task = "sleeping"
    /\ now >= due
    /\ login_reqs < MaxLogins
    /\ emitted' = emitted + 1
    /\ login_reqs' = login_reqs + 1
    /\ trail' = trail \o RefreshSteps(creds)
    /\ task' = "login"
    /\ ev' = Event("token_expired", "", 0, EmptyDict, EmptyDict, "none", TRUE)
    /\ UNCHANGED <<token, uid, login_pc, unloaded, creds, expire_at, due, tasks>>
    /\ UNCHANGED <<impl, now, devices, attributes, is_online, fetching,
                   v_devices, state_cache, v_fetching, v_pending, pushed, hist>>
    /\ UNCHANGED <<sockVars, bindVars, errVars, readVars>>

\* (variant: the task goes back to sleep when its login raised)
RefreshTaskRetries(prior, o) == "sleeping"
\* The state of the task self.task names once the login of the refresh
\* ended: a new sleeping task, or the old one, ended by the exception login
\* raised, which nothing awaits.
RefreshTask(prior, o) == IF LoginRaises(o) = "none" THEN LoginTask(prior, o) ELSE "failed"

\* The login response of the refresh arrived: login creates the next task
\* or raises, and the task that called it is over either way.
RefreshLoginEnd(o, tok, exp) ==
    /\ task = "login"
    /\ exp > now
    /\ token' = LoginToken(token, o, tok)
    /\ uid' = LoginUid(uid, o)
    /\ task' = RefreshTask(task, o)
    /\ expire_at' = LoginExpiry(expire_at, o, exp)
    /\ due' = LoginDue(due, o, now, exp)
    /\ tasks' = LoginTasks(tasks, o) - 1
    /\ ev' = Event("refresh_login", "", 0, LoginData(o, tok, exp), EmptyDict,
                   LoginRaises(o), TRUE)
    /\ UNCHANGED <<login_pc, login_reqs, emitted, unloaded, creds, trail>>
    /\ UNCHANGED <<impl, now, devices, attributes, is_online, fetching,
                   v_devices, state_cache, v_fetching, v_pending, pushed, hist>>
    /\ UNCHANGED <<sockVars, bindVars, errVars, readVars>>

\* GizwitsClient.__init__: no token, no uid, no task.
SessionNew ==
    /\ token = ""
    /\ uid = ""
    /\ task = "none"
    /\ login_pc = "idle"
    /\ login_reqs = 0
    /\ emitted = 0
    /\ unloaded = FALSE
    /\ creds = ""
    /\ expire_at = 0
    /\ due = 0
    /\ tasks = 0
    /\ trail = <<>>

InitSess ==
    /\ SessionNew /\ BindingsIdle /\ NoResponseYet /\ NoReader
    /\ impl = "gizwits"
    /\ now = 1
    /\ devices = {}
    /\ attributes = EmptyDict
    /\ is_online = EmptyDict
    /\ fetching = <<>>
    /\ v_devices = {}
    /\ state_cache = EmptyDict
    /\ v_fetching = <<>>
    /\ v_pending = NoPending
    /\ ev = Event("init", "", 0, EmptyDict, EmptyDict, "none", FALSE)
    /\ pushed = [d \in AllDids |-> NoPush]
    /\ hist = [d \in AllDids |-> NoHist]
    /\ conns = <<>>
    /\ sockets = EmptyDict
    /\ sub_pc = [d \in AllDids |-> "idle"]
    /\ sub_conn = [d \in AllDids |-> 0]
    /\ sub_calls = [d \in AllDids |-> 0]
    /\ websocket_connection = [d \in AllDids |-> 0]

NextSess ==
    \/ \E c \in Credentials : LoginBegin(c)
    \/ \E o \in LoginOutcomes, tok \in Tokens, exp \in Expiries : LoginEnd(o, tok, exp)
    \/ RefreshWake
    \/ \E o \in LoginOutcomes, tok \in Tokens, exp \in Expiries :
          RefreshLoginEnd(o, tok, exp)
    \/ Tick

SpecSess == InitSess /\ [][NextSess]_vars

\* login called again on a client whose refresh task is asleep: login has
\* no guard and cancels nothing, get_token sends the login request.
LoginAgain(c) ==
    /\ login_pc = "idle"
    /\ task = "sleeping"
    /\ now < due
    /\ ~unloaded
    /\ login_reqs < MaxLogins
    /\ login_pc' = "sent"
    /\ login_reqs' = login_reqs + 1
    /\ creds' = c
    /\ trail' = Append(trail, Step("login_req", c))
    /\ ev' = Event("login_req", "", 0, EmptyDict, EmptyDict, "none", TRUE)
    /\ UNCHANGED <<token, uid, task, emitted, unloaded, expire_at, due, tasks>>
    /\ UNCHANGED <<impl, now, devices, attributes, is_online, fetching,
                   v_devices, state_cache, v_fetching, v_pending, pushed, hist>>
    /\ UNCHANGED <<sockVars, bindVars, errVars, readVars>>

\* Explicit logins on one client before the first expiry (specification
\* SpecRelogin); task and due name the task created last, tasks counts the
\* refresh tasks that have been created and have not ended.
NextRelogin ==
    \/ \E c \in Credentials : LoginBegin(c)
    \/ \E c \in Credentials : LoginAgain(c)
    \/ \E o \in LoginOutcomes, tok \in Tokens, exp \in Expiries : LoginEnd(o, tok, exp)
    \/ Tick

SpecRelogin == InitSess /\ [][NextRelogin]_vars

\* C36: at most one refresh task is pending, whatever logins were made on
\* the client.
C36_AtMostOneRefreshTask ==
    tasks <= 1

\* One device subscribes while the refresh task renews the token
\* (specification SpecAuth): the token of the setup login expires at MaxTs.
InitAuth ==
    /\ SessionLoggedInUntil(MaxTs) /\ BindingsIdle /\ NoResponseYet /\ NoReader
    /\ impl = "gizwits"
    /\ now = 1
    /\ devices = Dids
    /\ attributes = [d \in devices |-> EmptyDict]
    /\ is_online = [d \in devices |-> TRUE]
    /\ fetching = <<>>
    /\ v_devices = {}
    /\ state_cache = EmptyDict
    /\ v_fetching = <<>>
    /\ v_pending = NoPending
    /\ ev = Event("init", "", 0, EmptyDict, EmptyDict, "none", FALSE)
    /\ pushed = [d \in AllDids |-> NoPush]
    /\ hist = [d \in AllDids |-> NoHist]
    /\ conns = <<>>
    /\ sockets = EmptyDict
    /\ sub_pc = [d \in AllDids |-> "idle"]
    /\ sub_conn = [d \in AllDids |-> 0]
    /\ sub_calls = [d \in AllDids |-> 0]
    /\ websocket_connection = [d \in AllDids |-> 0]

NextAuth ==
    \/ NextSock
    \/ RefreshWake
    \/ \E o \in LoginOutcomes, tok \in Tokens, exp \in Expiries :
          RefreshLoginEnd(o, tok, exp)
    \/ Tick

SpecAuth == InitAuth /\ [][NextAuth]_vars

-----------------------------------------------------------------------------
(* pygizwits: binding discovery (specification SpecBind) *)

\* get_bindings calls explored.
MaxBindCalls == 2
\* get_bindings line 222: the page size.
limit == 20
\* Numbers of devices bound to the account on the server; its devices are
\* numbered 1..account and a page is a slice of that list.
AccountSizes == {0, 7, 20, 27, 40, 47}

\* GET /app/bindings?show_disabled=0&limit=..&skip=..: the page's devices.
ServerPage(n, lim, sk) == {k \in 1..n : sk < k /\ k <= sk + lim}

\* (variant: the loop goes on until a page comes back empty)
BindingsMoreUntilEmpty(page) == Cardinality(page) > 0
\* get_bindings lines 250-253: another page is asked for after a full one.
BindingsMore(page) == Cardinality(page) = limit

\* (variant: the registry is filled page by page)
BindingsRegistryPartial(prior, bound, raises, more) == bound
\* get_bindings lines 254-274: the registry is assigned once, after the
\* loop; a call that raised never gets there.
BindingsRegistry(prior, bound, raises, more) ==
    IF raises # "none" \/ more THEN prior ELSE bound

\* get_bindings lines 254-263: every exception of a page request is
\* replaced by GizwitsException.
BindingsRaises(o) == IF HttpRaises(o) # "none" THEN "GizwitsException" ELSE "none"

\* get_bindings up to its loop, against an account of n devices.
GetBindingsBegin(n) ==
    /\ bind_pc = "idle"
    /\ bind_calls < MaxBindCalls
    /\ bind_calls' = bind_calls + 1
    /\ account' = n
    /\ bind_pc' = "loop"
    /\ skip' = 0
    /\ bound_devices' = {}
    /\ requests' = <<>>
    /\ ev' = Event("get_bindings", "", 0, EmptyDict, EmptyDict, "none", FALSE)
    /\ UNCHANGED <<impl, now, devices, attributes, is_online, fetching,
                   v_devices, state_cache, v_fetching, v_pending, pushed, hist>>
    /\ UNCHANGED <<sockVars, sessVars, errVars, readVars>>

\* One iteration of the loop: the request for the page at skip returns with
\* outcome o. The devices of every page are GizwitsDevice objects made anew,
\* with empty attributes.
GetBindingsPage(o) ==
    /\ bind_pc = "loop"
    /\ requests' = Append(requests, [limit |-> limit, skip |-> skip])
    /\ LET raises == BindingsRaises(o)
           page == IF raises = "none" THEN ServerPage(account, limit, skip) ELSE {}
           bound == bound_devices \cup page
           more == raises = "none" /\ BindingsMore(page)
       IN /\ bound_devices' = IF raises = "none" THEN bound ELSE {}
          /\ skip' = IF more THEN skip + limit ELSE skip
          /\ bind_pc' = IF more THEN "loop" ELSE "idle"
          /\ devices' = BindingsRegistry(devices, bound, raises, more)
          /\ attributes' = IF raises # "none" \/ more THEN attributes
                            ELSE [d \in devices' |-> EmptyDict]
          /\ is_online' = IF raises # "none" \/ more THEN is_online
                           ELSE [d \in devices' |-> TRUE]
          /\ ev' = Event(IF more THEN "page" ELSE "bindings", "", 0, EmptyDict,
                         EmptyDict, raises, TRUE)
    /\ UNCHANGED <<impl, now, fetching, v_devices, state_cache, v_fetching,
                   v_pending, pushed, hist>>
    /\ UNCHANGED <<account, bind_calls>>
    /\ UNCHANGED <<sockVars, sessVars, errVars, readVars>>

InitBind ==
    /\ SessionLoggedIn /\ BindingsIdle /\ NoResponseYet /\ NoReader
    /\ impl = "gizwits"
    /\ now = 1
    /\ devices = {}
    /\ attributes = EmptyDict
    /\ is_online = EmptyDict
    /\ fetching = <<>>
    /\ v_devices = {}
    /\ state_cache = EmptyDict
    /\ v_fetching = <<>>
    /\ v_pending = NoPending
    /\ ev = Event("init", "", 0, EmptyDict, EmptyDict, "none", FALSE)
    /\ pushed = [d \in AllDids |-> NoPush]
    /\ hist = [d \in AllDids |-> NoHist]
    /\ conns = <<>>
    /\ sockets = EmptyDict
    /\ sub_pc = [d \in AllDids |-> "idle"]
    /\ sub_conn = [d \in AllDids |-> 0]
    /\ sub_calls = [d \in AllDids |-> 0]
    /\ websocket_connection = [d \in AllDids |-> 0]

NextBind ==
    \/ \E n \in AccountSizes : GetBindingsBegin(n)
    \/ \E o \in HttpOutcomes : GetBindingsPage(o)

SpecBind == InitBind /\ [][NextBind]_vars

\* An account whose devices have all been discovered by one get_bindings
\* call and have had their attributes pushed since (specification
\* SpecResync): get_bindings is called again within the session.
InitResync ==
    /\ SessionLoggedIn /\ NoResponseYet /\ NoReader
    /\ account \in AccountSizes \ {0}
    /\ bind_pc = "idle"
    /\ skip = (account \div limit) * limit
    /\ bound_devices = 1..account
    /\ requests = [k \in 1..((account \div limit) + 1) |->
                      [limit |-> limit, skip |-> (k - 1) * limit]]
    /\ bind_calls = 1
    /\ impl = "gizwits"
    /\ now = 1
    /\ devices = 1..account
    /\ attributes = [d \in devices |-> [onoff |-> 1, temp_unit |-> 0]]
    /\ is_online = [d \in devices |-> TRUE]
    /\ fetching = <<>>
    /\ v_devices = {}
    /\ state_cache = EmptyDict
    /\ v_fetching = <<>>
    /\ v_pending = NoPending
    /\ ev = Event("init", "", 0, EmptyDict, EmptyDict, "none", FALSE)
    /\ pushed = [d \in AllDids |-> NoPush]
    /\ hist = [d \in AllDids |-> NoHist]
    /\ conns = <<>>
    /\ sockets = EmptyDict
    /\ sub_pc = [d \in AllDids |-> "idle"]
    /\ sub_conn = [d \in AllDids |-> 0]
    /\ sub_calls = [d \in AllDids |-> 0]
    /\ websocket_connection = [d \in AllDids |-> 0]

SpecResync == InitResync /\ [][NextBind]_vars

-----------------------------------------------------------------------------
(* raise_for_status on a response, in detail (specification SpecErr) *)

\* HTTP statuses and error envelopes explored. A body either does not decode
\* as JSON, or is an object with or without an error_code.
Statuses == {200, 400, 401, 403, 404, 500, 502, 503}
ErrorCodeValues == {0, 9004, 9005, 9020, 9042, 9999}
Response(status, decodes, has_code, error_code) ==
    [status |-> status, decodes |-> decodes, has_code |-> has_code,
     error_code |-> error_code]
Responses ==
    {Response(st, FALSE, FALSE, 0) : st \in Statuses}
        \cup {Response(st, TRUE, FALSE, 0) : st \in Statuses}
        \cup {Response(st, TRUE, TRUE, c) : st \in Statuses, c \in ErrorCodeValues}

\* ClientResponse.ok
Ok(r) == r.status < 400

\* An exception: its class and the HTTP status it carries (0: none).
Error(class, status) == [class |-> class, status |-> status]

\* ErrorCodes.get_exception: the class for an error code, GizwitsException
\* for a code the table does not hold.
get_exception(error_code) ==
    CASE error_code = 9004 -> "GizwitsTokenInvalidException"
      [] error_code = 9005 -> "GizwitsUserDoesNotExistException"
      [] error_code = 9042 -> "GizwitsOfflineException"
      [] error_code = 9020 -> "GizwitsIncorrectPasswordException"
      [] OTHER -> "GizwitsException"

\* exceptions.py raise_for_status: a body that does not decode leads to
\* response.raise_for_status(); otherwise the class get_exception gives is
\* raised without arguments. That class is never falsy, so the final
\* response.raise_for_status() is not reached.
GizRaised(r) ==
    IF Ok(r) THEN Error("none", 0)
    ELSE IF ~r.decodes THEN Error("ClientResponseError", r.status)
    ELSE LET error_code == IF r.has_code THEN r.error_code ELSE 0
         IN Error(get_exception(error_code), 0)

\* vesta/api.py _raise_for_status: the four known codes, else
\* response.raise_for_status().
VestaRaised(r) ==
    IF Ok(r) THEN Error("none", 0)
    ELSE IF ~r.decodes THEN Error("ClientResponseError", r.status)
    ELSE LET error_code == IF r.has_code THEN r.error_code ELSE 0
         IN CASE error_code = 9004 -> Error("VestaTokenInvalidException", 0)
              [] error_code = 9005 -> Error("VestaUserDoesNotExistException", 0)
              [] error_code = 9042 -> Error("VestaOfflineException", 0)
              [] error_code = 9020 -> Error("VestaIncorrectPasswordException", 0)
              [] OTHER -> Error("ClientResponseError", r.status)

\* A response is handed to raise_for_status of the client in use.
HandleResponse(r) ==
    /\ response' = r
    /\ raised' = IF impl = "gizwits" THEN GizRaised(r) ELSE VestaRaised(r)
    /\ UNCHANGED <<storeVars, sockVars, sessVars, bindVars, readVars>>

InitErr == Init

NextErr == \E r \in Responses : HandleResponse(r)

SpecErr == InitErr /\ [][NextErr]_vars

-----------------------------------------------------------------------------
(* Properties of the device state store (specification Spec) *)

\* The timestamp of d's snapshot, 0 when the snapshot carries none.
GizSnapshotTs(d) ==
    IF "updated_at" \in DOMAIN attributes[d] THEN attributes[d].updated_at ELSE 0
VestaSnapshotTs(d) ==
    IF d \in DOMAIN state_cache THEN state_cache[d].timestamp ELSE 0

\* m holds every key of u with u's value.
Holds(m, u) == \A k \in DOMAIN u : k \in DOMAIN m /\ m[k] = u[k]

\* d's pygizwits snapshot shows the values of u: at its top level (after a
\* push) or under "attr" (after a poll stored the response body).
GizSnapshotHolds(d, u) ==
    \/ Holds(attributes[d], u)
    \/ ("attr" \in DOMAIN attributes[d] /\ Holds(attributes[d].attr, u))

\* The step is a poll response for a bound device, decoded and applied.
PollStep == ev'.op = "poll" /\ ev'.result = "none"

\* C1: a poll update whose (non-zero) timestamp is less than or equal to the
\* timestamp of the device's current snapshot leaves the snapshot unchanged.
C1_StalePollIsNoOp ==
    [][(PollStep /\ ev'.ts # 0) =>
          LET d == ev'.did
          IN /\ (impl = "gizwits" /\ ev'.ts <= GizSnapshotTs(d))
                    => attributes'[d] = attributes[d]
             /\ (impl = "vesta" /\ ev'.ts <= VestaSnapshotTs(d))
                    => state_cache' = state_cache]_vars

\* C2: the attribute values a push wrote are still in the snapshot after any
\* poll that is older than the moment the push was observed, however late
\* that poll is delivered.
C2_PushSurvivesOlderPoll ==
    \A d \in devices :
        pushed[d] # NoPush => GizSnapshotHolds(d, pushed[d].attrs)

C6_FailedSetLeavesSnapshot ==
    [][/\ \A id \in devices, attrs \in SetAttrs, o \in HttpOutcomes \ {"ok"} :
             set_device_attributes(id, attrs, o) =>
                 /\ ev'.result # "none"
                 /\ attributes' = attributes /\ is_online' = is_online
       /\ \A o \in HttpOutcomes \ {"ok"} :
             VestaSetEnd(o) => (ev'.result # "none" /\ state_cache' = state_cache)]_vars

C6_Witness ==
    /\ impl = "vesta"
    /\ ev.op = "set" /\ ev.sent /\ ev.result # "none"
    /\ ev.did \in DOMAIN state_cache
    /\ ~Holds(state_cache[ev.did].attrs, ev.attrs)

\* C7: after a setter whose control request succeeded, the snapshot holds
\* the written values under a fresh local timestamp.
C7_SuccessfulSetMerges ==
    (ev.op = "set" /\ ev.result = "none") =>
        /\ impl = "gizwits" => GizSnapshotHolds(ev.did, ev.attrs)
        /\ impl = "vesta" => /\ Holds(state_cache[ev.did].attrs, ev.attrs)
                             /\ state_cache[ev.did].timestamp = ev.ts

\* C8: a setter for a device id that is not in the registry fails with
\* DeviceNotBound, sends no control request and changes no snapshot.
C8_UnboundSetFails ==
    [][(impl = "gizwits" /\ ev'.op = "set" /\ ev'.did \notin devices) =>
          /\ ev'.result = "GizwitsDeviceNotBound"
          /\ ~ev'.sent
          /\ attributes' = attributes /\ is_online' = is_online]_vars

C8_Witness ==
    /\ impl = "gizwits"
    /\ ev.op = "set" /\ ev.did \notin devices
    /\ ev.result = "GizwitsDeviceNotBound" /\ ~ev.sent
    /\ attributes["d1"] # EmptyDict

\* C21: once a setter wrote the cached state at local time T, a poll
\* response replaces that state only if its timestamp is more recent than
\* T: one with a timestamp older than or equal to T leaves the cache alone.
C21_LocalWriteSurvives ==
    [][(/\ impl = "vesta"
        /\ ev.op = "set" /\ ev.result = "none"
        /\ ev.did \in DOMAIN state_cache
        /\ state_cache[ev.did].timestamp = ev.ts
        /\ Holds(state_cache[ev.did].attrs, ev.attrs)
        /\ PollStep /\ ev'.did = ev.did
        /\ ev'.ts # 0 /\ ev'.ts <= ev.ts)
          => state_cache' = state_cache]_vars

-----------------------------------------------------------------------------
(* Properties of the poll cycle (specification SpecPoll) *)

\* C19: when the fetch for one device fails, the cycle goes on: the devices
\* after it are still to be fetched, none is dropped from the cycle.
C19_FailedFetchDoesNotAbort ==
    [][(ev'.op = "poll" /\ ev'.sent /\ ev'.result # "none") =>
          /\ (impl = "gizwits" /\ fetching # <<>>) => fetching' = Tail(fetching)
          /\ (impl = "vesta" /\ v_fetching # <<>>) => v_fetching' = Tail(v_fetching)]_vars

-----------------------------------------------------------------------------
(* Properties of the websocket connections (specification SpecSock) *)

\* C9: devices whose resolved endpoint is the same share one connection: no
\* two open connections have the same url.
C9_OneConnectionPerEndpoint ==
    \A i, j \in 1..Len(conns) :
        (i # j /\ conns[i].open /\ conns[j].open) => conns[i].url # conns[j].url

SubscribeReqs(c) == SelectSeq(c.sent, LAMBDA f : f.cmd = "subscribe_req")

\* C10: every subscribe_req re-sends the whole subscription set of its
\* connection: it names every device an earlier subscribe_req on that
\* connection named.
C10_SubscribeReqFullSet ==
    \A i \in 1..Len(conns) :
        LET reqs == SubscribeReqs(conns[i])
        IN \A a, b \in 1..Len(reqs) :
              a < b => Range(reqs[a].dids) \subseteq Range(reqs[b].dids)

\* A login_res with success = true has arrived on the connection (handled
\* already, or still waiting for the receive task).
LoginConfirmed(c) ==
    \/ c.logged_in
    \/ \E k \in 1..Len(c.inbox) : c.inbox[k].cmd = "login_res" /\ c.inbox[k].success

\* C11: every subscribe_req sent on a connection is preceded by a login_res
\* with success = true on that connection; none is sent while the login is
\* unanswered or was refused.
C11_SubscribeAfterLogin ==
    [][\A i \in 1..Len(conns) :
          Len(SubscribeReqs(conns'[i])) > Len(SubscribeReqs(conns[i]))
              => LoginConfirmed(conns[i])]_vars

-----------------------------------------------------------------------------
(* Properties of the shutdown (specification SpecLife) *)

\* No background task runs and no connection is open.
Quiet ==
    /\ task \notin {"sleeping", "login"}
    /\ \A i \in 1..Len(conns) :
          ~conns[i].open /\ ~conns[i].pinging /\ ~conns[i].receiving

\* C20: once the integration is unloaded, eventually the refresh task and
\* every connection's ping and receive tasks are gone and every connection
\* is closed.
C20_UnloadStopsEverything == unloaded ~> Quiet

-----------------------------------------------------------------------------
(* Properties of the receive task (specification SpecRecv) *)

\* C18: no inbound frame ends the receive loop: on every open connection
\* the receive task keeps running, whatever frames arrived.
C18_ReceiveLoopSurvives ==
    \A i \in 1..Len(conns) : conns[i].open => conns[i].receiving

-----------------------------------------------------------------------------
(* Properties of the error taxonomy (specification SpecErr) *)

\* The kind of failure a class stands for.
ErrorKind(class) ==
    CASE class \in {"GizwitsTokenInvalidException", "VestaTokenInvalidException"}
             -> "token-invalid"
      [] class \in {"GizwitsUserDoesNotExistException", "VestaUserDoesNotExistException"}
             -> "user-not-found"
      [] class \in {"GizwitsOfflineException", "VestaOfflineException"}
             -> "device-offline"
      [] class \in {"GizwitsIncorrectPasswordException", "VestaIncorrectPasswordException"}
             -> "wrong-password"
      [] class = "none" -> "none"
      [] OTHER -> "generic"

\* C13: for a non-2xx response the error raised is decided by error_code:
\* 9004 token-invalid, 9005 user-not-found, 9042 device-offline, 9020
\* wrong-password, and any other or missing code a generic error that
\* carries the HTTP status of the response.
C13_ErrorByCode ==
    ~Ok(response) =>
        LET code == IF response.decodes /\ response.has_code THEN response.error_code ELSE 0
        IN CASE code = 9004 -> ErrorKind(raised.class) = "token-invalid"
             [] code = 9005 -> ErrorKind(raised.class) = "user-not-found"
             [] code = 9042 -> ErrorKind(raised.class) = "device-offline"
             [] code = 9020 -> ErrorKind(raised.class) = "wrong-password"
             [] OTHER -> /\ ErrorKind(raised.class) = "generic"
                         /\ raised.status = response.status

-----------------------------------------------------------------------------
(* Properties of binding discovery (specification SpecBind) *)

\* The call that just ended returned normally.
BindingsReturned == ev.op = "bindings" /\ ev.result = "none"

\* C14: against an account whose pages have the sizes [limit, ..., limit, r]
\* with r < limit, get_bindings ends after exactly one request per page,
\* request k asking for limit devices from skip (k-1)*limit, and returns as
\* many distinct devices as the pages hold together.
C14_OneRequestPerPage ==
    BindingsReturned =>
        /\ Len(requests) = (account \div limit) + 1
        /\ \A k \in 1..Len(requests) :
              requests[k] = [limit |-> limit, skip |-> (k - 1) * limit]
        /\ Cardinality(devices) = account
        /\ bound_devices = devices

C14_Witness ==
    /\ BindingsReturned
    /\ account = 47
    /\ Len(requests) = 3
    /\ Cardinality(devices) = 47

\* C15: when a page request of get_bindings fails, the call fails as a
\* whole: it raises, hands out no partial list, and the registry of the
\* device manager is what it was before the call.
C15_FailedBindingsKeepRegistry ==
    [][\A o \in HttpOutcomes \ {"ok"} :
          GetBindingsPage(o) =>
              /\ ev'.op = "bindings" /\ ev'.result = "GizwitsException"
              /\ bound_devices' = {}
              /\ devices' = devices
              /\ attributes' = attributes /\ is_online' = is_online]_vars

C15_Witness ==
    /\ ev.op = "bindings" /\ ev.result = "GizwitsException"
    /\ account = 47
    /\ Len(requests) = 2
    /\ Cardinality(devices) = 7

\* C12: an authenticated call answered with error_code 9004 fails with the
\* token-invalid error, and the client thereupon sends a new login request
\* on its own.
C12_TokenInvalidTriggersLogin ==
    [][GetBindingsPage("9004") =>
          /\ ev'.result = "GizwitsTokenInvalidException"
          /\ login_reqs' > login_reqs]_vars

-----------------------------------------------------------------------------
(* Properties of the session (specification SpecSess) *)

\* C16: when the login of the refresh task fails, a token_expired
\* notification is emitted because of that failure (at it or after it).
C16_FailedRefreshNotifies ==
    [][(ev'.op = "refresh_login" /\ task = "login" /\ ev'.result # "none")
          => emitted' > emitted]_vars

AuthErrors == {"GizwitsUserDoesNotExistException", "GizwitsIncorrectPasswordException"}

\* C17: a login refused with user-does-not-exist or wrong-password raises
\* that very error to its caller; the call sent one login request and sends
\* no other, the token and the uid stay as they were and no refresh task is
\* scheduled (in async_setup_entry's login and in the refresh task's).
C17_AuthErrorSurfaces ==
    [][/\ \A c \in Credentials : LoginBegin(c) => login_reqs' = login_reqs + 1
       /\ \A tok \in Tokens, exp \in Expiries :
             /\ LoginEnd("9005", tok, exp) =>
                   ev'.result = "GizwitsUserDoesNotExistException"
             /\ LoginEnd("9020", tok, exp) =>
                   ev'.result = "GizwitsIncorrectPasswordException"
       /\ (ev'.op = "login" /\ login_pc = "sent" /\ ev'.result \in AuthErrors) =>
             /\ login_pc' = "idle"
             /\ login_reqs' = login_reqs
             /\ token' = token /\ uid' = uid
             /\ task' = task /\ task' = "none"
       /\ (ev'.op = "refresh_login" /\ task = "login" /\ ev'.result \in AuthErrors) =>
             /\ login_reqs' = login_reqs
             /\ token' = token /\ uid' = uid
             /\ task' # "sleeping"]_vars

C17_Witness ==
    /\ ev.op = "login" /\ ev.result = "GizwitsIncorrectPasswordException"
    /\ login_reqs = 2
    /\ token = "" /\ uid = "" /\ task = "none"

\* C28: a login that got its token stores that token, leaves exactly one
\* refresh task, asleep until expire_at - now after the login and holding
\* the credentials of the login request, and has returned to its caller.
C28_LoginSchedulesOneRefresh ==
    [][(ev'.op \in {"login", "refresh_login"} /\ ev'.result = "none") =>
          /\ token' = ev'.attrs.token
          /\ task' = "sleeping" /\ tasks' = 1
          /\ due' - now = ev'.attrs.expire_at - now
          /\ trail' # <<>> /\ trail'[Len(trail')] = Step("login_req", creds')
          /\ login_pc' = "idle"]_vars

C28_Witness ==
    /\ ev.op = "refresh_login" /\ ev.result = "none"
    /\ token = "t2" /\ tasks = 1 /\ task = "sleeping"
    /\ due = MaxTs + 1 /\ now < due

\* C29: the refresh task sends its login request strictly before the
\* stored token reaches its expire_at.
C29_RefreshBeforeExpiry ==
    [][(task = "sleeping" /\ login_reqs' > login_reqs) => now < expire_at]_vars

\* C30: token_expired is emitted only by the refresh task when its sleep
\* ended, once, immediately before the login request of that task goes out
\* with the task's credentials; the outcome of that login emits nothing more.
C30_ExpiredThenLogin ==
    [][/\ (emitted' # emitted) =>
             /\ emitted' = emitted + 1
             /\ task = "sleeping" /\ now >= due
             /\ login_reqs' = login_reqs + 1
             /\ trail' = trail \o <<Step("token_expired", ""), Step("login_req", creds)>>
       /\ (task = "sleeping" /\ login_reqs' # login_reqs) => emitted' = emitted + 1
       /\ (ev'.op = "refresh_login") => (emitted' = emitted /\ trail' = trail)]_vars

C30_Witness ==
    /\ ev.op = "refresh_login" /\ ev.result # "none"
    /\ emitted = 1 /\ task = "failed"
    /\ Len(trail) >= 3
    /\ trail[Len(trail) - 1].e = "token_expired"

\* C37: the login of a refresh task that got its token leaves one refresh
\* task asleep until the new expire_at; the login of a refresh task that
\* raised leaves no refresh task and the token that has expired, and from
\* then on the token stays and no task appears unless a login request is
\* made.
C37_RefreshChain ==
    [][/\ (ev'.op = "refresh_login" /\ ev'.result = "none") =>
             /\ task' = "sleeping" /\ tasks' = 1
             /\ token' = ev'.attrs.token
             /\ expire_at' = ev'.attrs.expire_at /\ due' = expire_at'
       /\ (ev'.op = "refresh_login" /\ ev'.result # "none") =>
             /\ task' = "failed" /\ tasks' = 0
             /\ token' = token /\ expire_at' = expire_at
             /\ now' >= expire_at'
       /\ (task = "failed" /\ login_reqs' = login_reqs) =>
             /\ task' = "failed" /\ tasks' = 0
             /\ token' = token /\ expire_at' = expire_at]_vars

\* The re-login at the expiry raised: no task, the expired token of the
\* setup login still stored.
C37_Witness ==
    /\ task = "failed" /\ tasks = 0
    /\ ev.op = "refresh_login" /\ ev.result = "ClientError"
    /\ token = "t1" /\ expire_at = 2 /\ now >= expire_at
    /\ login_reqs = 2 /\ emitted = 1

\* C39: a get_bindings call that returns leaves every device that was
\* bound before and still is with the attribute snapshot it had.
C39_ResyncKeepsSnapshots ==
    [][(ev'.op = "bindings" /\ ev'.result = "none") =>
          \A d \in devices \cap devices' : attributes'[d] = attributes[d]]_vars

-----------------------------------------------------------------------------
(* Properties of the life of a connection (SpecAuth, SpecSock, SpecLife, SpecLoss) *)

\* C40: a close() call on a connection, whatever its state, raises nothing
\* and leaves the connection closed with neither its ping task nor its
\* receive task running.
C40_CloseAlwaysSucceeds ==
    [][\A i \in 1..Len(conns) :
          (ev'.op = "close" /\ ev'.ts = i /\ ev' # ev) =>
              /\ ev'.result = "none"
              /\ ~conns'[i].pinging /\ ~conns'[i].receiving /\ ~conns'[i].open]_vars

\* Connection objects a run can create: one per subscribe call at most.
MaxConns == Cardinality(AllDids) * MaxSubCalls

\* The connection is held by no subscribe call in progress and is not in
\* the registry.
Abandoned(i) ==
    /\ i <= Len(conns)
    /\ \A d \in AllDids : sub_conn[d] # i
    /\ \A u \in DOMAIN sockets : sockets[u] # i

\* C38: the registry changes only in the step that ends a subscribe call
\* whose connection was connected and has had its login_req and then the
\* subscribe_req for the device sent; a step in which the connect, the
\* login_req send or the subscribe_req send raises leaves the registry as
\* it was, and the receive and ping tasks of a connection abandoned that
\* way come to an end.
C38_RegisteredAfterThreeSteps ==
    /\ [][/\ sockets' # sockets =>
                \E d \in AllDids :
                   LET c == conns[sub_conn[d]]
                   IN /\ sub_pc[d] = "subscribe" /\ sub_pc'[d] = "idle"
                      /\ Len(c.sent) >= 2
                      /\ c.sent[1].cmd = "login_req"
                      /\ c.sent[2] = Frame("subscribe_req", <<d>>, FALSE)
                      /\ DOMAIN sockets' = DOMAIN sockets \cup {get_websocket_conn_info(d)}
                      /\ sockets'[get_websocket_conn_info(d)] = sub_conn[d]
                      /\ \A u \in DOMAIN sockets :
                            u # get_websocket_conn_info(d) => sockets'[u] = sockets[u]
          /\ \A d \in AllDids :
                (sub_pc[d] \in {"connect", "login"} /\ sub_pc'[d] = "idle") =>
                    sockets' = sockets]_vars
    /\ \A i \in 1..MaxConns :
          Abandoned(i) ~> (Abandoned(i) /\ ~conns[i].receiving /\ ~conns[i].pinging)

\* The subscribe_req send of a call raised after its login_req had gone
\* out: the connection is in no registry, and its receive task and the ping
\* task login() had created are both over.
C38_Witness ==
    \E i \in 1..Len(conns) :
       /\ Abandoned(i)
       /\ sockets = EmptyDict
       /\ Len(conns[i].sent) = 1 /\ conns[i].sent[1].cmd = "login_req"
       /\ ~conns[i].open /\ ~conns[i].receiving /\ ~conns[i].pinging
       /\ conns[i].inbox = <<>>

\* C22: the logged_in flag of a connection is false when the connection is
\* created and becomes true only in the step in which its receive loop
\* takes a login_res with success = true from the open connection; no other
\* step, sending the login_req included, sets it.
C22_LoggedInOnlyOnSuccess ==
    [][\A i \in 1..Len(conns') :
          conns'[i].logged_in =>
             /\ i <= Len(conns)
             /\ \/ conns[i].logged_in
                \/ /\ conns[i].open /\ conns[i].receiving
                   /\ conns[i].inbox # <<>>
                   /\ Head(conns[i].inbox) = Frame("login_res", <<>>, TRUE)]_vars

\* A connection whose login_req was answered is logged in.
C22_Witness ==
    \E i \in 1..Len(conns) :
        /\ conns[i].logged_in
        /\ conns[i].answered >= 1 /\ conns[i].sent[1].cmd = "login_req"

LoginRefused(c) ==
    \E k \in 1..Len(c.inbox) : c.inbox[k] = Frame("login_res", <<>>, FALSE)

\* C23: a login_res with success = false that arrived on a connection leads
\* to that connection being closed (and a new one being opened).
C23_RefusedLoginReconnects ==
    \A i \in 1..Cardinality(AllDids) :
        (i <= Len(conns) /\ LoginRefused(conns[i])) ~> (i <= Len(conns) /\ ~conns[i].open)

\* C24: the first frame sent on a connection goes out in the step in which
\* its transport opens, and it is the login_req carrying the token, the uid
\* and the heartbeat interval the client holds in that step; so no ping and
\* no subscribe_req precedes it.
C24_LoginReqFirst ==
    [][\A i \in 1..Len(conns') :
          (conns'[i].sent # <<>> /\ (i > Len(conns) \/ conns[i].sent = <<>>)) =>
             /\ i <= Len(conns)
             /\ ~conns[i].open /\ conns'[i].open
             /\ conns'[i].sent = <<LoginReq(token, uid, ping_interval)>>]_vars

\* A connection whose login_req carries the token of a refresh login.
C24_Witness ==
    \E i \in 1..Len(conns) :
        /\ conns[i].sent # <<>>
        /\ conns[i].sent[1].cmd = "login_req" /\ conns[i].sent[1].token = "t2"
        /\ token = "t2"

\* C25: a ping goes out on a connection only after a login_res with
\* success = true was received on it.
C25_PingOnlyWhenLoggedIn ==
    [][\A i \in 1..Len(conns) :
          conns'[i].pings > conns[i].pings => LoginConfirmed(conns[i])]_vars

\* C26: when the receive loop of a connection is handed CLOSED or ERROR,
\* the heartbeat task is stopped and the logged_in flag is cleared.
C26_LossStopsHeartbeat ==
    [][\A i \in 1..Len(conns) :
          (/\ conns[i].receiving /\ conns[i].inbox # <<>>
           /\ Head(conns[i].inbox) \in TransportMessages
           /\ ~conns'[i].receiving)
             => (~conns'[i].pinging /\ ~conns'[i].logged_in)]_vars

\* C27: a subscribe_to_device_updates call that finds the connection of its
\* endpoint lost opens a fresh connection.
C27_SubscribeAfterLossReconnects ==
    [][\A d \in AllDids :
          LET websocket_url == get_websocket_conn_info(d)
          IN (/\ sub_calls'[d] = sub_calls[d] + 1
              /\ websocket_url \in DOMAIN sockets
              /\ ~conns[sockets[websocket_url]].open
              /\ ~conns[sockets[websocket_url]].receiving)
                => Len(conns') = Len(conns) + 1]_vars

-----------------------------------------------------------------------------
(* Properties of the refresh cycle, the poll and the push *)

\* C31: every refresh cycle of the coordinator, also beside an established
\* connection, starts a poll that fetches each bound device.
C31_RefreshPollsEveryDevice ==
    [][ev'.op = "_async_update_data" =>
          (fetching' = SelectSeq(DeviceOrder, LAMBDA d : d \in devices)
              /\ fetching' # <<>>)]_vars

\* C32: a poll step that fails changes no snapshot, and a poll step that
\* succeeds changes the snapshot of the device it fetched only: when a cycle
\* fails, the failing device and the devices not yet fetched are as they
\* were before the cycle.
C32_FailedPollKeepsSnapshots ==
    [][ev'.op = "poll" =>
          IF ev'.result # "none"
          THEN attributes' = attributes /\ is_online' = is_online
                  /\ state_cache' = state_cache
          ELSE /\ \A d \in devices \ {ev'.did} :
                     attributes'[d] = attributes[d] /\ is_online'[d] = is_online[d]
               /\ \A d \in DOMAIN state_cache \ {ev'.did} :
                     d \in DOMAIN state_cache' /\ state_cache'[d] = state_cache[d]]_vars

\* A cycle failed at d2, which still has the snapshot an earlier cycle
\* gave it.
C32_Witness ==
    /\ ev.op = "poll" /\ ev.result # "none" /\ ev.did = "d2"
    /\ impl = "gizwits"
    /\ attributes["d2"] # EmptyDict /\ attributes["d2"].updated_at # 0

\* C33: after a push for a device, that device is online.
C33_PushMarksOnline ==
    [][(ev'.op = "push" /\ ev'.result = "none") => is_online'[ev'.did]]_vars

NoDuplicate(list) ==
    \A a, b \in 1..Len(list) : a # b => list[a] # list[b]

\* The receive loop of c takes a subscribe_res with a success list in this step.
TakesSubscribeRes(c, c2) ==
    /\ c.receiving /\ c.inbox # <<>>
    /\ Head(c.inbox).cmd = "subscribe_res"
    /\ "dids" \in DOMAIN Head(c.inbox)
    /\ c2.inbox = Tail(c.inbox)

\* C34: subscribed_devices never lists a did twice; when the receive loop
\* took a subscribe_res, every did of its success list is listed and its
\* device holds this connection; a did enters the list only in such a step,
\* from the success list.
C34_SubscribedOnceAndBound ==
    [][/\ \A i \in 1..Len(conns') :
             /\ NoDuplicate(conns'[i].subscribed_devices)
             /\ i > Len(conns) => conns'[i].subscribed_devices = <<>>
       /\ \A i \in 1..Len(conns) :
             LET c == conns[i]
                 c2 == conns'[i]
             IN /\ TakesSubscribeRes(c, c2) =>
                      \A k \in 1..Len(Head(c.inbox).dids) :
                         /\ Head(c.inbox).dids[k] \in Range(c2.subscribed_devices)
                         /\ websocket_connection'[Head(c.inbox).dids[k]] = i
                /\ \A d \in Range(c2.subscribed_devices) \ Range(c.subscribed_devices) :
                      /\ TakesSubscribeRes(c, c2)
                      /\ d \in Range(Head(c.inbox).dids)]_vars

\* A connection took two subscribe_res that both name d1.
C34_Witness ==
    \E i \in 1..Len(conns) :
        /\ conns[i].subscribed_devices = <<"d1", "d2">>
        /\ websocket_connection["d1"] = i /\ websocket_connection["d2"] = i
        /\ conns[i].inbox = <<>>
        /\ \E a, b \in 1..Len(conns[i].sent) :
              /\ a < b /\ b <= conns[i].answered
              /\ conns[i].sent[a].cmd = "subscribe_req" /\ conns[i].sent[a].dids = <<"d1">>
              /\ conns[i].sent[b].cmd = "subscribe_req"
              /\ conns[i].sent[b].dids = <<"d1", "d2">>

-----------------------------------------------------------------------------
(* Readers and writers of one device's snapshot on the event loop
   (specification SpecRead): a coroutine runs statement by statement until
   its next await, and only there another coroutine gets to run. *)

\* One assignment: the field written, the key (for an item of attrs) and
\* the value.
Stmt(f, k, v) == [f |-> f, k |-> k, v |-> v]

\* airjet_spa_set_power lines 248-254 and airjet_spa_set_target_temp lines
\* 300-301: the statements of a setter after its control POST returned.
VestaSetStatements(op, arg, t) ==
    <<Stmt("timestamp", "", t)>> \o
        (IF op = "temp_set" THEN <<Stmt("attrs", "temp_set", arg)>>
         ELSE IF arg = 1 THEN <<Stmt("attrs", "spa_power", 1)>>
         ELSE <<Stmt("attrs", "spa_power", 0), Stmt("attrs", "filter_power", 0),
                Stmt("attrs", "heat_power", 0), Stmt("attrs", "wave_power", 0)>>)

\* fetch_data lines 218-221: the one assignment that stores a new status.
VestaPollStatements(ts, attrs) == <<Stmt("status", "", VestaDeviceStatus(ts, attrs))>>

\* fetch_devices lines 341-348: the assignments after the GET returned.
GizPollStatements(latest_data) ==
    IF latest_data.updated_at = 0
    THEN <<Stmt("is_online", "", FALSE), Stmt("attributes", "", EmptyDict)>>
    ELSE <<Stmt("attributes", "", latest_data)>>

\* got_device_status_update line 86.
GizPushStatements(attrs) == <<Stmt("attributes", "", attrs)>>

\* The stretches a writer of d1 can run when the event loop resumes it.
WriterStretches ==
    IF impl = "vesta"
    THEN {VestaSetStatements("temp_set", t, now) : t \in Temps}
            \cup {VestaSetStatements("spa_power", power, now) : power \in {0, 1}}
            \cup {VestaPollStatements(ts, attrs) :
                     ts \in {t \in 1..MaxTs : ~VestaIgnores(state_cache, "d1", t)},
                     attrs \in VestaPollAttrs}
    ELSE {GizPollStatements(LatestData("d1", ts, attrs)) :
             ts \in 0..MaxTs, attrs \in PollAttrs}
            \cup {GizPushStatements(attrs) : attrs \in PushAttrs}

\* What a reader of the device gets: the cached status of VestaApi, or the
\* attributes and is_online of the GizwitsDevice.
Snapshot(d) ==
    IF impl = "vesta" THEN state_cache[d]
    ELSE [attributes |-> attributes[d], is_online |-> is_online[d]]

\* The snapshot after one assignment.
Assign(snap, stmt) ==
    CASE stmt.f = "timestamp" -> [snap EXCEPT !.timestamp = stmt.v]
      [] stmt.f = "attrs" ->
            [snap EXCEPT !.attrs = [k \in (DOMAIN @) \cup {stmt.k} |->
                                       IF k = stmt.k THEN stmt.v ELSE @[k]]]
      [] stmt.f = "status" -> stmt.v
      [] stmt.f = "is_online" -> [snap EXCEPT !.is_online = stmt.v]
      [] stmt.f = "attributes" -> [snap EXCEPT !.attributes = stmt.v]

RECURSIVE AssignAll(_, _)
AssignAll(snap, stmts) ==
    IF stmts = <<>> THEN snap ELSE AssignAll(Assign(snap, Head(stmts)), Tail(stmts))

\* The event loop resumes a writer of d1: its awaited request has returned.
ResumeWriter(stmts) ==
    /\ stretch.todo = <<>>
    /\ stmts \in WriterStretches
    /\ stretch' = Stretch(stmts, Snapshot("d1"), AssignAll(Snapshot("d1"), stmts))
    /\ seen' = NoRead
    /\ UNCHANGED <<storeVars, sockVars, sessVars, bindVars, errVars>>

\* The running coroutine executes its next statement.
RunStatement ==
    /\ stretch.todo # <<>>
    /\ LET after == Assign(Snapshot("d1"), Head(stretch.todo))
       IN IF impl = "vesta"
          THEN /\ state_cache' = [state_cache EXCEPT !["d1"] = after]
               /\ UNCHANGED <<attributes, is_online>>
          ELSE /\ attributes' = [attributes EXCEPT !["d1"] = after.attributes]
               /\ is_online' = [is_online EXCEPT !["d1"] = after.is_online]
               /\ UNCHANGED state_cache
    /\ stretch' = [stretch EXCEPT !.todo = Tail(@)]
    /\ UNCHANGED seen
    /\ UNCHANGED <<impl, now, devices, fetching, v_devices, v_fetching, v_pending,
                   ev, pushed, hist>>
    /\ UNCHANGED <<sockVars, sessVars, bindVars, errVars>>

\* (variant: a reader runs between any two statements)
ReadAllowedAlways(todo) == TRUE
\* Another coroutine, or a callback, runs only when the running coroutine
\* reached an await or returned: the setters await nothing after the
\* control POST, the fetch loop nothing between its assignments.
ReadAllowed(todo) == todo = <<>>

\* An entity reads the snapshot of d1.
ReadSnapshot ==
    /\ ReadAllowed(stretch.todo)
    /\ seen' = [snap |-> Snapshot("d1"), old |-> stretch.old, new |-> stretch.new]
    /\ UNCHANGED stretch
    /\ UNCHANGED <<storeVars, sockVars, sessVars, bindVars, errVars>>

\* d1 is bound and has been fetched once.
InitRead ==
    /\ SessionLoggedIn /\ BindingsIdle /\ NoResponseYet
    /\ impl \in {"gizwits", "vesta"}
    /\ now = 1
    /\ devices = IF impl = "gizwits" THEN Dids ELSE {}
    /\ attributes = [d \in devices |-> LatestData(d, 1, [onoff |-> 0, temp_unit |-> 0])]
    /\ is_online = [d \in devices |-> TRUE]
    /\ fetching = <<>>
    /\ v_devices = IF impl = "vesta" THEN Dids ELSE {}
    /\ state_cache = [d \in v_devices |-> VestaDeviceStatus(1, AllOn(20))]
    /\ v_fetching = <<>>
    /\ v_pending = NoPending
    /\ ev = Event("init", "", 0, EmptyDict, EmptyDict, "none", FALSE)
    /\ pushed = [d \in AllDids |-> NoPush]
    /\ hist = [d \in AllDids |-> NoHist]
    /\ conns = <<>>
    /\ sockets = EmptyDict
    /\ sub_pc = [d \in AllDids |-> "idle"]
    /\ sub_conn = [d \in AllDids |-> 0]
    /\ sub_calls = [d \in AllDids |-> 0]
    /\ websocket_connection = [d \in AllDids |-> 0]
    /\ stretch = Stretch(<<>>, Snapshot("d1"), Snapshot("d1"))
    /\ seen = NoRead

NextRead ==
    \/ \E stmts \in WriterStretches : ResumeWriter(stmts)
    \/ RunStatement
    \/ ReadSnapshot
    \/ Tick

SpecRead == InitRead /\ [][NextRead]_vars

\* C35: what a read of a device's snapshot returns is the snapshot as it
\* was before the write operation on the device it runs beside or as it is
\* after all of that operation's assignments, never one between two of them.
C35_ReadSeesOldOrNew ==
    seen # NoRead => (seen.snap = seen.old \/ seen.snap = seen.new)

\* A read that followed a setter returned a snapshot whose timestamp and
\* attributes both changed.
C35_Witness ==
    /\ impl = "vesta"
    /\ seen # NoRead
    /\ seen.snap = seen.new
    /\ seen.new.timestamp # seen.old.timestamp
    /\ seen.new.attrs # seen.old.attrs
    /\ "wave_power" \in DOMAIN seen.old.attrs /\ seen.old.attrs.wave_power = 1
    /\ "spa_power" \in DOMAIN seen.new.attrs /\ seen.new.attrs.spa_power = 0
    /\ "wave_power" \in DOMAIN seen.new.attrs /\ seen.new.attrs.wave_power = 0

====
